---- MODULE Spec2Model ----
(***************************************************************************)
(* The VPE COFF object writer (lib/MC/VPEObjectWriter.cpp) and the parts   *)
(* of the VPE COFF object reader (lib/Object/VPEObjectFile.cpp) that       *)
(* decode what the writer produces.                                        *)
(*                                                                         *)
(* Spec       the writer: executePostLayoutBinding (defineSection,         *)
(*            DefineSymbol), recordRelocation, and writeObject.            *)
(* SpecLayout writeObject on sections staged with given sizes, flags and   *)
(*            relocation counts, up to sizes near 2^32.                    *)
(* SpecName   a section name from the writer's SetSectionName to the       *)
(*            reader's getSectionName.                                     *)
(***************************************************************************)
EXTENDS Integers, Sequences, FiniteSets, TLC

(***************************************************************************)
(* Bounds of the model.                                                    *)
(***************************************************************************)
\* The number of calls the assembler makes before writeObject: file names
\* registered, sections and symbols defined, relocations recorded.
MaxCalls == 3

(***************************************************************************)
(* Program constants.                                                      *)
(***************************************************************************)
NameSize == 8
Header16Size == 20
Header32Size == 56
SectionSize == 40
RelocationSize == 10
Symbol16Size == 18
Symbol32Size == 20
MaxNumberOfSections16 == 65279
RelocOverflow == 65535
IMAGE_SYM_ABSOLUTE == -1
IMAGE_SYM_DEBUG == -2
IMAGE_COMDAT_SELECT_ANY == 2
IMAGE_COMDAT_SELECT_ASSOCIATIVE == 5

\* The names of the MC sections.
SectionNames == {".text", ".text$long"}

\* The MC symbols of the assembler that are not temporary.
MCSyms == {"x", "y"}
NoSym == "none"
\* The order in which Asm.symbols() yields them.
SymbolOrder == [x |-> 1, y |-> 2]

\* A null VPESymbol* / VPESection*.
Null == 0
\* Layout.getBaseSymbol returned no symbol.
NoBase == -1

\* Selection kinds and COMDAT symbols an MC section can carry: no COMDAT,
\* an ordinary COMDAT (select any) keyed by a symbol, or an associative
\* COMDAT whose symbol names the section it is associated with.
SectionCOMDATs ==
    {<<0, NoSym>>} \cup
    { <<s, m>> : s \in {IMAGE_COMDAT_SELECT_ANY, IMAGE_COMDAT_SELECT_ASSOCIATIVE},
                 m \in MCSyms }

\* (IMAGE_SCN_CNT_UNINITIALIZED_DATA set, Layout.getSectionAddressSize as
\* the two limbs of a 64-bit value, see below)
SectionKinds == {<<FALSE, <<0, 3>>>>}

\* MCSym.isExternal() || (!MCSym.getFragment() && !MCSym.isVariable())
IsExternalInputs == {TRUE}

\* Lengths of the file names registered with the assembler.
FileNameLens == {19, 4591}

VARIABLES
    Sections,      \* VPEObjectWriter::Sections, in definition order
    Symbols,       \* VPEObjectWriter::Symbols, in creation order
    SymbolMap,     \* VPEObjectWriter::SymbolMap: MC symbol -> position in Symbols
    Header,        \* VPEObjectWriter::Header
    UseBigObj,     \* VPEObjectWriter::UseBigObj
    FileNames,     \* Asm.getFileNames(), as name lengths
    Strings,       \* VPEObjectWriter::Strings
    out,           \* the records written to W.OS, in order
    tell,          \* W.OS.tell()
    I,             \* the section iterator of writeObject's content loop
    pc,            \* position of the writer's caller
    codec,         \* a section name on its way from SetSectionName to getSectionName
    streamer,      \* MCVPEStreamer: CurSymbol, the symbols' class and type, its calls
    reader,        \* a buffer on its way through createVPEObjectFile
    signals        \* FilesToRemove, its nodes, and the threads that work on it

writerVars == <<Sections, Symbols, SymbolMap, Header, UseBigObj, FileNames, Strings, out, tell, I, pc>>
vars == <<writerVars, codec, streamer, reader, signals>>

(***************************************************************************)
(* 64-bit and 32-bit unsigned values.  File offsets, sizes and string-     *)
(* table offsets can exceed the integers the model checker computes with,  *)
(* so such a value is kept as two limbs <<hi, lo>> of value                *)
(* hi * 2^24 + lo with 0 <= lo < 2^24.                                     *)
(***************************************************************************)
Limb == 64 * 64 * 64 * 64
U64(hi, lo) == <<hi, lo>>
U64Of(n) == <<n \div Limb, n % Limb>>
\* a <= b
U64Le(a, b) == a[1] < b[1] \/ (a[1] = b[1] /\ a[2] <= b[2])
\* a + b
U64Add(a, b) ==
    LET lo == a[2] + b[2]
    IN  <<a[1] + b[1] + lo \div Limb, lo % Limb>>
\* a - b, for a >= b
U64Sub(a, b) ==
    IF a[2] >= b[2] THEN <<a[1] - b[1], a[2] - b[2]>>
    ELSE <<a[1] - b[1] - 1, a[2] + Limb - b[2]>>
\* The conversion to uint32_t or unsigned: the low 32 bits.
U32(v) == <<v[1] % 256, v[2]>>

(***************************************************************************)
(* Staging objects.                                                        *)
(***************************************************************************)
\* The zero byte, and a name field of zero bytes.
NUL == "NUL"
ZeroName == [i \in 1..NameSize |-> NUL]

\* No section name is on its way.
NoCodec == [ step |-> "idle" ]

\* MCVPEStreamer after construction: no definition is open (CurSymbol is
\* null), no symbol has a storage class or a type, and no call was made.
NoStreamer ==
    [ CurSymbol |-> NoSym,
      Class |-> [m \in MCSyms |-> 0],
      Type |-> [m \in MCSyms |-> 0],
      Trace |-> <<>> ]

\* No buffer is on its way.
NoReader == [ step |-> "idle" ]

\* Signals.cpp is not in use.
NoSignals == [ step |-> "idle" ]

\* VPESymbol(Name): Index is left uninitialised by the constructor; no code
\* path reads it before writeObject assigns it.
Uninit == -9

NewSymbol(name) ==
    [ Name |-> name, Index |-> Uninit, Aux |-> <<>>, Other |-> Null,
      Section |-> Null, Relocations |-> 0, MC |-> NoSym,
      SectionNumber |-> 0, StorageClass |-> "null", NumberOfAuxSymbols |-> 0,
      NameData |-> [ Zeroes |-> 0, Offset |-> 0, ShortName |-> ZeroName ] ]

\* VPESection(Name): Number is left uninitialised by the constructor.
NewSection(name) ==
    [ Name |-> name, Number |-> Uninit, Symbol |-> Null, Relocations |-> <<>>,
      COMDAT |-> NoSym, Uninitialized |-> FALSE, AddressSize |-> U64(0, 0),
      SizeOfRawData |-> U64(0, 0), PointerToRawData |-> U64(0, 0),
      PointerToRelocations |-> U64(0, 0),
      NumberOfRelocations |-> 0, HeaderName |-> ZeroName ]

\* The record defineSection leaves keeps the variant resize() gave it.
SectionDefinitionAux_Blank(sel) ==
    [ AuxType |-> "ATFunctionDefinition", Selection |-> sel, Number |-> 0,
      Length |-> U64(0, 0), NumberOfRelocations |-> 0, CheckSum |-> 0 ]

SectionDefinitionAux(sel) ==
    [ AuxType |-> "ATSectionDefinition", Selection |-> sel, Number |-> 0,
      Length |-> U64(0, 0), NumberOfRelocations |-> 0, CheckSum |-> 0 ]

WeakExternalAux ==
    [ AuxType |-> "ATWeakExternal", TagIndex |-> 0 ]

\* GetOrCreateVPESymbol: the symbol list and map after the call, and the
\* position of the symbol.
GetOrCreateVPESymbol(syms, map, m) ==
    IF map[m] # Null
    THEN [ syms |-> syms, map |-> map, pos |-> map[m] ]
    ELSE [ syms |-> Append(syms, NewSymbol(m)),
           map |-> [map EXCEPT ![m] = Len(syms) + 1],
           pos |-> Len(syms) + 1 ]

RECURSIVE RecordedRelocs(_)
\* The number of relocations recorded so far, kept or not.
RecordedRelocs(syms) ==
    IF syms = <<>> THEN 0
    ELSE Head(syms).Relocations + RecordedRelocs(Tail(syms))

\* DefineSymbol(m) has run.
IsDefined(m) == SymbolMap[m] # Null /\ Symbols[SymbolMap[m]].MC # NoSym

\* The calls made so far.
Calls ==
    Len(FileNames) + Len(Sections) + Cardinality({m \in MCSyms : IsDefined(m)})
        + RecordedRelocs(Symbols)

(***************************************************************************)
(* The assembler registers file names while it parses, and then runs       *)
(* executePostLayoutBinding: first every section, then every symbol.       *)
(***************************************************************************)
\* The initial values of the writer's variables.
WriterIdle ==
    /\ Sections = <<>>
    /\ Symbols = <<>>
    /\ SymbolMap = [m \in MCSyms |-> Null]
    /\ Header = [ NumberOfSections |-> 0, NumberOfSymbols |-> 0,
                  PointerToSymbolTable |-> U64(0, 0) ]
    /\ UseBigObj = FALSE
    /\ FileNames = <<>>
    /\ Strings = <<>>
    /\ out = <<>>
    /\ tell = U64(0, 0)
    /\ I = 1

Init ==
    /\ signals = NoSignals
    /\ WriterIdle
    /\ pc = "sections"
    /\ codec = NoCodec
    /\ streamer = NoStreamer
    /\ reader = NoReader

\* MCAssembler::addFileName, for a name of len bytes.
addFileName(len) ==
    /\ pc = "sections"
    /\ Sections = <<>>
    /\ Calls < MaxCalls
    /\ FileNames' = Append(FileNames, len)
    /\ UNCHANGED <<Sections, Symbols, SymbolMap, Header, UseBigObj, Strings, out, tell, I, pc>>
    /\ UNCHANGED <<codec, streamer, reader, signals>>

\* defineSection(MCSec) for an MC section with the given selection, COMDAT
\* symbol, characteristics and size.
defineSection(secName, sel, comdat, kind) ==
    /\ pc = "sections"
    /\ Calls < MaxCalls
    /\ LET secPos == Len(Sections) + 1
           symPos == Len(Symbols) + 1
           defSym == [ NewSymbol(secName) EXCEPT
                         !.Section = secPos,
                         !.StorageClass = "static",
                         !.Aux = << SectionDefinitionAux(sel) >> ]
           syms1 == Append(Symbols, defSym)
           needsCOMDAT == sel # IMAGE_COMDAT_SELECT_ASSOCIATIVE /\ comdat # NoSym
           g == GetOrCreateVPESymbol(syms1, SymbolMap, comdat)
           sec == [ NewSection(secName) EXCEPT
                      !.Symbol = symPos, !.COMDAT = comdat,
                      !.Uninitialized = kind[1], !.AddressSize = kind[2] ]
       IN  IF needsCOMDAT
           THEN IF g.syms[g.pos].Section # Null
                THEN \* report_fatal_error("two sections have the same comdat")
                     /\ pc' = "fatal"
                     /\ Sections' = Append(Sections, [sec EXCEPT !.Symbol = symPos])
                     /\ Symbols' = g.syms
                     /\ SymbolMap' = g.map
                ELSE /\ pc' = pc
                     /\ Sections' = Append(Sections, sec)
                     /\ Symbols' = [g.syms EXCEPT ![g.pos].Section = secPos]
                     /\ SymbolMap' = g.map
           ELSE /\ pc' = pc
                /\ Sections' = Append(Sections, sec)
                /\ Symbols' = syms1
                /\ SymbolMap' = SymbolMap
    /\ UNCHANGED <<Header, UseBigObj, FileNames, Strings, out, tell, I>>
    /\ UNCHANGED <<codec, streamer, reader, signals>>

\* getLinkedSymbol(MCSym): alias is the undefined symbol the variable MCSym
\* refers to, or NoSym when MCSym is not such a variable.
getLinkedSymbol(syms, map, alias) ==
    IF alias = NoSym
    THEN [ syms |-> syms, map |-> map, pos |-> Null ]
    ELSE GetOrCreateVPESymbol(syms, map, alias)

\* The local symbol is made static whatever MCSym.isExternal() says.
LocalStorageClass_Static(cls, isExternal) ==
    IF cls = "null" THEN "static" ELSE cls

\* The storage class DefineSymbol gives the local symbol: the class set in
\* the streamer, or external/static when the streamer set none.
LocalStorageClass(cls, isExternal) ==
    IF cls = "null"
    THEN (IF isExternal THEN "external" ELSE "static")
    ELSE cls

\* An MC symbol that some variable symbol refers to as its undefined aliasee.
IsAliasee(m) ==
    /\ SymbolMap[m] # Null
    /\ \E i \in 1..Len(Symbols) :
          /\ Symbols[i].Other = SymbolMap[m]
          /\ Symbols[i].MC # NoSym

\* The synthesized default is left without a section.
WeakDefaultSymbol_Absolute(WeakName, Sec, isExternal) ==
    [ NewSymbol(WeakName) EXCEPT
        !.SectionNumber = IMAGE_SYM_ABSOLUTE,
        !.StorageClass = LocalStorageClass("null", isExternal) ]

\* The symbol DefineSymbol creates as the default of a weak external that
\* has no linked symbol: absolute without a section Sec, else in Sec.
WeakDefaultSymbol(WeakName, Sec, isExternal) ==
    [ NewSymbol(WeakName) EXCEPT
        !.SectionNumber = IF Sec = Null THEN IMAGE_SYM_ABSOLUTE ELSE 0,
        !.Section = Sec,
        !.StorageClass = LocalStorageClass("null", isExternal) ]

\* DefineSymbol(MCSym): base is NoBase when Layout.getBaseSymbol gives no
\* symbol, Null when the base symbol has no fragment, and otherwise the
\* position of the section that holds the base symbol's fragment.
DefineSymbol(m, base, weak, alias, isExternal) ==
    /\ pc \in {"sections", "symbols"}
    /\ Calls < MaxCalls
    /\ SymbolMap[m] # Null => Symbols[SymbolMap[m]].MC = NoSym
    /\ \A m2 \in MCSyms : SymbolOrder[m2] > SymbolOrder[m] => ~IsDefined(m2)
    /\ alias # m
    /\ alias # NoSym => /\ weak
                        /\ base = Null
                        /\ SymbolMap[alias] # Null =>
                              /\ Symbols[SymbolMap[alias]].MC = NoSym
                                 \/ Symbols[SymbolMap[alias]].SectionNumber = 0
    /\ IsAliasee(m) => base = Null
    /\ LET g == GetOrCreateVPESymbol(Symbols, SymbolMap, m)
           Sec == IF base = NoBase THEN Null ELSE base
           conflict == /\ Sec # Null
                       /\ g.syms[g.pos].Section # Null
                       /\ g.syms[g.pos].Section # Sec
           l == getLinkedSymbol(g.syms, g.map, alias)
           \* the synthesized default of a weak external without a target
           defName == ".weak." \o m \o ".default"
           defPos == Len(l.syms) + 1
           defSym == WeakDefaultSymbol(defName, Sec, isExternal)
           weakSyms == IF l.pos = Null THEN Append(l.syms, defSym) ELSE l.syms
           WeakDefault == IF l.pos = Null THEN defPos ELSE l.pos
       IN  IF conflict
           THEN \* report_fatal_error("conflicting sections for symbol")
                /\ pc' = "fatal"
                /\ Symbols' = g.syms
                /\ SymbolMap' = g.map
           ELSE /\ pc' = "symbols"
                /\ IF weak
                   THEN /\ Symbols' = [weakSyms EXCEPT
                                         ![g.pos].StorageClass = "weak_external",
                                         ![g.pos].Other = WeakDefault,
                                         ![g.pos].Aux = << WeakExternalAux >>,
                                         ![g.pos].MC = m]
                        /\ SymbolMap' = l.map
                   ELSE /\ Symbols' = [g.syms EXCEPT
                                         ![g.pos].SectionNumber =
                                             IF base = NoBase THEN IMAGE_SYM_ABSOLUTE ELSE @,
                                         ![g.pos].Section =
                                             IF base = NoBase THEN @ ELSE Sec,
                                         ![g.pos].StorageClass =
                                             LocalStorageClass("null", isExternal),
                                         ![g.pos].MC = m]
                        /\ SymbolMap' = g.map
    /\ UNCHANGED <<Sections, Header, UseBigObj, FileNames, Strings, out, tell, I>>
    /\ UNCHANGED <<codec, streamer, reader, signals>>

(***************************************************************************)
(* recordRelocation.  A section's relocation list is kept as runs: a run   *)
(* stands for n consecutive relocations against the same symbol.           *)
(***************************************************************************)
NewRelocation(symb) ==
    [ Symb |-> symb, SymbolTableIndex |-> 0, n |-> 1 ]

RECURSIVE RelocCount(_)
\* Sec.Relocations.size()
RelocCount(relocs) ==
    IF relocs = <<>> THEN 0 ELSE Head(relocs).n + RelocCount(Tail(relocs))

\* recordRelocation for a fixup in section sec whose target symbol A is
\* either the registered MC symbol m, or (m = NoSym) a temporary symbol
\* that lives in section tsec.  keep is what the target writer's
\* recordRelocation(Fixup) answers.
recordRelocation(sec, m, tsec, keep) ==
    /\ pc \in {"sections", "symbols", "relocs"}
    /\ sec \in 1..Len(Sections)
    /\ Calls < MaxCalls
    /\ IF m = NoSym THEN tsec \in 1..Len(Sections)
                    ELSE tsec = Null /\ SymbolMap[m] # Null
    /\ LET Symb == IF m = NoSym THEN Sections[tsec].Symbol ELSE SymbolMap[m]
       IN  /\ Symbols' = [Symbols EXCEPT ![Symb].Relocations = @ + 1]
           /\ Sections' = IF keep
                          THEN [Sections EXCEPT ![sec].Relocations =
                                    Append(@, NewRelocation(Symb))]
                          ELSE Sections
    /\ pc' = "relocs"
    /\ UNCHANGED <<SymbolMap, Header, UseBigObj, FileNames, Strings, out, tell, I>>
    /\ UNCHANGED <<codec, streamer, reader, signals>>

(***************************************************************************)
(* writeObject, first part: numbering, file symbols, symbol indices.       *)
(***************************************************************************)
isAssociative(syms, S) ==
    syms[S.Symbol].Aux[1].Selection = IMAGE_COMDAT_SELECT_ASSOCIATIVE

\* The Assign lambda of assignSectionNumbers.
Assign(st, p) ==
    [ secs |-> [st.secs EXCEPT ![p].Number = st.I],
      syms |-> [st.syms EXCEPT ![st.secs[p].Symbol].SectionNumber = st.I,
                               ![st.secs[p].Symbol].Aux[1].Number = st.I],
      I |-> st.I + 1 ]

RECURSIVE AssignPass(_, _, _)
\* One loop of assignSectionNumbers over the sections from position p on.
AssignPass(st, p, assoc) ==
    IF p > Len(st.secs) THEN st
    ELSE AssignPass(IF isAssociative(st.syms, st.secs[p]) = assoc
                    THEN Assign(st, p) ELSE st,
                    p + 1, assoc)

\* The associative sections are numbered in the first pass.
assignSectionNumbers_AssociativeFirst(secs, syms) ==
    AssignPass(AssignPass([secs |-> secs, syms |-> syms, I |-> 1], 1, TRUE),
               1, FALSE)

assignSectionNumbers(secs, syms) ==
    AssignPass(AssignPass([secs |-> secs, syms |-> syms, I |-> 1], 1, FALSE),
               1, TRUE)

\* Count in createFileSymbols.
AuxCount(len, SymbolSize) == (len + SymbolSize - 1) \div SymbolSize

\* Every record copies from the start of the name: Offset is not advanced.
FileAux_OffsetKept(len, SymbolSize, k) ==
    LET Length == len - k * SymbolSize
    IN  IF Length > SymbolSize
        THEN [ AuxType |-> "ATFile", Offset |-> 0, Len |-> SymbolSize ]
        ELSE [ AuxType |-> "ATFile", Offset |-> 0, Len |-> Length ]

\* The auxiliary record at position k (from 0) of a file symbol: it holds
\* the Len name bytes from Offset on, then zeros.  The loop breaks after
\* the first record that takes the rest of the name; records after it keep
\* the value resize() gave them.
FileAux(len, SymbolSize, k) ==
    LET Length == len - k * SymbolSize
    IN  IF Length > SymbolSize
        THEN [ AuxType |-> "ATFile", Offset |-> k * SymbolSize, Len |-> SymbolSize ]
        ELSE [ AuxType |-> "ATFile", Offset |-> k * SymbolSize, Len |-> Length ]

RECURSIVE createFileSymbols(_, _, _)
createFileSymbols(syms, names, big) ==
    IF names = <<>> THEN syms
    ELSE LET SymbolSize == IF big THEN Symbol32Size ELSE Symbol16Size
             Count == AuxCount(Head(names), SymbolSize)
             File == [ NewSymbol(".file") EXCEPT
                         !.SectionNumber = IMAGE_SYM_DEBUG,
                         !.StorageClass = "file",
                         !.Aux = [k \in 1..Count |->
                                     FileAux(Head(names), SymbolSize, k - 1)] ]
         IN  createFileSymbols(Append(syms, File), Tail(names), big)

\* The value COFF::symbol::NumberOfAuxSymbols, a field of one byte, takes
\* when n is assigned to it.
AuxCountField(n) == n % 256

RECURSIVE AssignIndices(_, _, _, _)
\* The loop of writeObject that gives each symbol its table index; n is
\* Header.NumberOfSymbols.
AssignIndices(syms, secs, i, n) ==
    IF i > Len(syms) THEN [ syms |-> syms, n |-> n ]
    ELSE LET naux == AuxCountField(Len(syms[i].Aux))
             s1 == [syms EXCEPT
                      ![i].SectionNumber =
                          IF syms[i].Section # Null
                          THEN secs[syms[i].Section].Number ELSE @,
                      ![i].Index = n,
                      ![i].NumberOfAuxSymbols = naux]
         IN  AssignIndices(s1, secs, i + 1, n + 1 + naux)

(***************************************************************************)
(* Names.  A name is a string; its bytes are its one-character substrings. *)
(* An 8-byte name field is a tuple of 8 bytes, NUL standing for the zero   *)
(* byte.                                                                   *)
(***************************************************************************)
CharAt(str, i) == SubSeq(str, i, i)

\* The copy leaves out the last byte of the name.
MemcpyName_OneShort(field, str) ==
    [i \in 1..NameSize |-> IF i < Len(str) THEN CharAt(str, i) ELSE field[i]]

\* std::memcpy(Field, Str, Len(Str)): the bytes after the first Len(str)
\* keep their value.
MemcpyName(field, str) ==
    [i \in 1..NameSize |-> IF i <= Len(str) THEN CharAt(str, i) ELSE field[i]]

\* Value % 64 and Value / 64
U64Mod64(v) == v[2] % 64
U64Div64(v) == <<v[1] \div 64, (v[2] \div 64) + (v[1] % 64) * (Limb \div 64)>>
\* Value * 64 + c
U64Mul64Add(v, c) ==
    LET lo == v[2] * 64 + c
    IN  <<v[1] * 64 + lo \div Limb, lo % Limb>>

Max7DecimalOffset == U64(0, 9999999)
\* 0xFFFFFFFFF
MaxBase64Offset == U64(4095, Limb - 1)
\* std::numeric_limits<uint32_t>::max()
UInt32Max == U64(255, Limb - 1)

Alphabet == "ABCDEFGHIJKLMNOPQRSTUVWXYZabcdefghijklmnopqrstuvwxyz0123456789+/"

RECURSIVE Base64Digits_LowFirst(_, _)
\* The loop stores the characters from Buffer + 2 upwards.
Base64Digits_LowFirst(Value, i) ==
    IF i = 0 THEN ""
    ELSE CharAt(Alphabet, U64Mod64(Value) + 1)
            \o Base64Digits_LowFirst(U64Div64(Value), i - 1)

RECURSIVE Base64Digits(_, _)
\* The loop of encodeBase64StringEntry: the i characters it stores, the
\* last one first computed.
Base64Digits(Value, i) ==
    IF i = 0 THEN ""
    ELSE Base64Digits(U64Div64(Value), i - 1)
            \o CharAt(Alphabet, U64Mod64(Value) + 1)

encodeBase64StringEntry(Buffer, Value) ==
    MemcpyName(Buffer, "//" \o Base64Digits(Value, 6))

\* What stands for the name field when report_fatal_error is reached.
FatalName == [i \in 1..NameSize |-> "fatal"]

\* The decimal form is taken for offsets below Max7DecimalOffset only.
SetSectionName_StrictBoundary(HeaderName, Name, StringTableEntry) ==
    IF Len(Name) <= NameSize
    THEN MemcpyName(HeaderName, Name)
    ELSE IF StringTableEntry # Max7DecimalOffset
            /\ U64Le(StringTableEntry, Max7DecimalOffset)
    THEN MemcpyName(HeaderName, "/" \o ToString(StringTableEntry[2]))
    ELSE IF U64Le(StringTableEntry, MaxBase64Offset)
    THEN encodeBase64StringEntry(HeaderName, StringTableEntry)
    ELSE FatalName

\* SetSectionName: the name field of a section whose name is Name and, if
\* the name is long, whose string-table offset is StringTableEntry;
\* FatalName when report_fatal_error is reached.
SetSectionName(HeaderName, Name, StringTableEntry) ==
    IF Len(Name) <= NameSize
    THEN MemcpyName(HeaderName, Name)
    ELSE IF U64Le(StringTableEntry, Max7DecimalOffset)
    THEN MemcpyName(HeaderName, "/" \o ToString(StringTableEntry[2]))
    ELSE IF U64Le(StringTableEntry, MaxBase64Offset)
    THEN encodeBase64StringEntry(HeaderName, StringTableEntry)
    ELSE FatalName

(***************************************************************************)
(* The reader's decoding of a section name.                                *)
(***************************************************************************)
RECURSIVE IndexIn(_, _, _)
\* The position of character c in str counted from 0 at position i, or -1.
IndexIn(c, str, i) ==
    IF i > Len(str) THEN -1
    ELSE IF CharAt(str, i) = c THEN i - 1
    ELSE IndexIn(c, str, i + 1)

UpperCase == "ABCDEFGHIJKLMNOPQRSTUVWXYZ"
LowerCase == "abcdefghijklmnopqrstuvwxyz"
Digits == "0123456789"

\* The character value in decodeBase64StringEntry, -1 for a character
\* outside the alphabet.
CharVal(c) ==
    IF IndexIn(c, UpperCase, 1) >= 0 THEN IndexIn(c, UpperCase, 1)
    ELSE IF IndexIn(c, LowerCase, 1) >= 0 THEN IndexIn(c, LowerCase, 1) + 26
    ELSE IF IndexIn(c, Digits, 1) >= 0 THEN IndexIn(c, Digits, 1) + 52
    ELSE IF c = "+" THEN 62
    ELSE IF c = "/" THEN 63
    ELSE -1

\* What stands for a decoding that reports failure.
U64Error == <<-1, -1>>

RECURSIVE DecodeLoop(_, _)
DecodeLoop(Str, Value) ==
    IF Str = "" THEN Value
    ELSE IF CharVal(CharAt(Str, 1)) < 0 THEN U64Error
    ELSE DecodeLoop(SubSeq(Str, 2, Len(Str)), U64Mul64Add(Value, CharVal(CharAt(Str, 1))))

\* decodeBase64StringEntry: the 32-bit offset, or U64Error when it returns
\* true.
decodeBase64StringEntry(Str) ==
    IF Len(Str) > 6 THEN U64Error
    ELSE LET Value == DecodeLoop(Str, U64(0, 0))
         IN  IF Value = U64Error THEN U64Error
             ELSE IF ~U64Le(Value, UInt32Max) THEN U64Error
             ELSE Value

RECURSIVE DecimalLoop(_, _)
DecimalLoop(Str, Value) ==
    IF Str = "" THEN Value
    ELSE IF IndexIn(CharAt(Str, 1), Digits, 1) < 0 THEN -1
    ELSE DecimalLoop(SubSeq(Str, 2, Len(Str)),
                     Value * 10 + IndexIn(CharAt(Str, 1), Digits, 1))

\* Str.getAsInteger(10, Offset) for a string of at most 7 characters: the
\* value, or U64Error when it returns true (empty, or not all digits).
getAsInteger(Str) ==
    IF Str = "" THEN U64Error
    ELSE LET v == DecimalLoop(Str, 0)
         IN  IF v < 0 THEN U64Error ELSE U64Of(v)

RECURSIVE CString(_, _)
\* StringRef(const char *) over the field from position i: the bytes up
\* to the first zero byte (the field is followed by the zero-padded rest
\* of the header only when all 8 bytes are used, which the caller excludes).
CString(field, i) ==
    IF i > NameSize \/ field[i] = NUL THEN ""
    ELSE field[i] \o CString(field, i + 1)

RECURSIVE AllBytes(_, _)
AllBytes(field, i) ==
    IF i > NameSize THEN "" ELSE field[i] \o AllBytes(field, i + 1)

\* The name getSectionName takes from the field before it looks for '/'.
FieldName(field) ==
    IF field[NameSize] = NUL THEN CString(field, 1) ELSE AllBytes(field, 1)

startswith(Str, Prefix) ==
    Len(Str) >= Len(Prefix) /\ SubSeq(Str, 1, Len(Prefix)) = Prefix

\* The first part of getSectionName: whether the field is a string-table
\* reference, and the offset decoded from it (U64Error: parse_failed).
SectionNameOffset(field) ==
    LET Name == FieldName(field)
    IN  IF ~startswith(Name, "/")
        THEN [ inline |-> TRUE, Name |-> Name, Offset |-> U64(0, 0) ]
        ELSE [ inline |-> FALSE, Name |-> Name,
               Offset |-> IF startswith(Name, "//")
                          THEN decodeBase64StringEntry(SubSeq(Name, 3, Len(Name)))
                          ELSE getAsInteger(SubSeq(Name, 2, Len(Name))) ]

(***************************************************************************)
(* The string table (StringTableBuilder, WinCOFF kind): the names added,   *)
(* laid out one after the other behind the 4-byte size field, each closed  *)
(* by a zero byte.                                                         *)
(***************************************************************************)
StringsAdd(tbl, name) ==
    IF \E i \in 1..Len(tbl) : tbl[i] = name THEN tbl ELSE Append(tbl, name)

RECURSIVE StringsGetOffset(_, _)
StringsGetOffset(tbl, name) ==
    IF tbl = <<>> \/ Head(tbl) = name THEN 4
    ELSE Len(Head(tbl)) + 1 + StringsGetOffset(Tail(tbl), name) 

RECURSIVE StringsSize(_)
StringsSize(tbl) ==
    IF tbl = <<>> THEN 4 ELSE Len(Head(tbl)) + 1 + StringsSize(Tail(tbl))

RECURSIVE AddLongNames(_, _, _)
\* One "Build string table" loop of writeObject over objs from position i.
AddLongNames(tbl, objs, i) ==
    IF i > Len(objs) THEN tbl
    ELSE AddLongNames(IF Len(objs[i].Name) > NameSize
                      THEN StringsAdd(tbl, objs[i].Name) ELSE tbl,
                      objs, i + 1)

\* SetSymbolName: Data.Name as the inline bytes, or as the zero word and
\* the string-table offset.
SetSymbolName(tbl, S) ==
    IF Len(S.Name) > NameSize
    THEN [ Zeroes |-> 0, Offset |-> StringsGetOffset(tbl, S.Name), ShortName |-> ZeroName ]
    ELSE [ Zeroes |-> Len(S.Name), Offset |-> 0, ShortName |-> MemcpyName(ZeroName, S.Name) ]

(***************************************************************************)
(* writeObject, second part: fixups and file offsets.                      *)
(***************************************************************************)
\* The weak externals keep the tag index DefineSymbol gave them.
WeakFixups_Skipped(syms, i) == syms

RECURSIVE WeakFixups(_, _)
\* "Fixup weak external references"
WeakFixups(syms, i) ==
    IF i > Len(syms) THEN syms
    ELSE WeakFixups(IF syms[i].Other # Null
                    THEN [syms EXCEPT ![i].Aux[1].TagIndex = syms[syms[i].Other].Index]
                    ELSE syms,
                    i + 1)

\* No associative section is looked at.
AssocFixups_Skipped(st, p) == st

RECURSIVE AssocFixups(_, _)
\* "Fixup associative COMDAT sections", from section p on; st.fatal is set
\* when report_fatal_error is reached.
AssocFixups(st, p) ==
    IF p > Len(st.secs) THEN st
    ELSE IF st.syms[st.secs[p].Symbol].Aux[1].Selection # IMAGE_COMDAT_SELECT_ASSOCIATIVE
    THEN AssocFixups(st, p + 1)
    ELSE LET g == GetOrCreateVPESymbol(st.syms, st.map, st.secs[p].COMDAT)
             Assoc == g.syms[g.pos].Section
         IN  IF Assoc = Null
             THEN [ secs |-> st.secs, syms |-> g.syms, map |-> g.map, fatal |-> TRUE ]
             ELSE IF st.secs[Assoc].Number = -1
             THEN AssocFixups([st EXCEPT !.syms = g.syms, !.map = g.map], p + 1)
             ELSE AssocFixups(
                    [st EXCEPT !.map = g.map,
                               !.syms = [g.syms EXCEPT
                                           ![st.secs[p].Symbol].Aux[1].Number =
                                               st.secs[Assoc].Number]],
                    p + 1)

IsPhysicalSection(S) == ~S.Uninitialized

\* alignTo(Value, Align) on 64-bit values, for an Align that divides 2^24.
alignTo(Value, Align) ==
    LET v == U64Add(Value, U64Of(Align - 1))
    IN  <<v[1], v[2] - (v[2] % Align)>>

\* The relocations keep the index recordRelocation left in them.
ResolveRelocations_Unresolved(relocs, syms, k) == relocs

RECURSIVE ResolveRelocations(_, _, _)
\* Relocation.Data.SymbolTableIndex = Relocation.Symb->getIndex()
ResolveRelocations(relocs, syms, k) ==
    IF k > Len(relocs) THEN relocs
    ELSE ResolveRelocations(
            [relocs EXCEPT ![k].SymbolTableIndex = syms[relocs[k].Symb].Index],
            syms, k + 1)

\* Room is made for reloc #0 only above the limit, not at it.
RelocationRoom_NoRoomAtLimit(Offset, nrel) ==
    LET off == IF nrel > RelocOverflow
               THEN U32(U64Add(Offset, U64Of(RelocationSize)))
               ELSE Offset
    IN  U32(U64Add(off, U64Of(RelocationSize * nrel)))

\* What assignFileOffsets adds to the offset for a non-empty relocation
\* list of nrel entries: room for reloc #0 on overflow, and the entries.
\* Offset is an unsigned, so each addition keeps the low 32 bits.
RelocationRoom(Offset, nrel) ==
    LET off == IF nrel >= RelocOverflow
               THEN U32(U64Add(Offset, U64Of(RelocationSize)))
               ELSE Offset
    IN  U32(U64Add(off, U64Of(RelocationSize * nrel)))

RECURSIVE assignFileOffsetsLoop(_, _)
\* The section loop of assignFileOffsets from section p on; st.Offset is
\* the running offset, an unsigned.
assignFileOffsetsLoop(st, p) ==
    IF p > Len(st.secs) THEN st
    ELSE IF st.secs[p].Number = -1 THEN assignFileOffsetsLoop(st, p + 1)
    ELSE LET Sec == st.secs[p]
             size == U32(Sec.AddressSize)
             phys == IsPhysicalSection(Sec)
             raw == IF phys THEN U32(alignTo(st.Offset, 4)) ELSE Sec.PointerToRawData
             off1 == IF phys THEN U32(U64Add(raw, size)) ELSE st.Offset
             nrel == RelocCount(Sec.Relocations)
             RelocationsOverflow == nrel >= RelocOverflow
             off2 == IF nrel = 0 THEN off1 ELSE RelocationRoom(off1, nrel)
             Sec2 == [Sec EXCEPT
                        !.SizeOfRawData = size,
                        !.PointerToRawData = raw,
                        !.NumberOfRelocations =
                            IF nrel = 0 THEN @
                            ELSE IF RelocationsOverflow THEN RelocOverflow ELSE nrel,
                        !.PointerToRelocations = IF nrel = 0 THEN @ ELSE off1,
                        !.Relocations = ResolveRelocations(@, st.syms, 1)]
             syms2 == [st.syms EXCEPT
                         ![Sec.Symbol].Aux[1].Length = Sec2.SizeOfRawData,
                         ![Sec.Symbol].Aux[1].NumberOfRelocations = Sec2.NumberOfRelocations]
         IN  assignFileOffsetsLoop(
                [ secs |-> [st.secs EXCEPT ![p] = Sec2], syms |-> syms2, Offset |-> off2 ],
                p + 1)

\* assignFileOffsets: the sections, symbols and Header.PointerToSymbolTable
\* (as Offset) after the call.
assignFileOffsets(secs, syms, start, big, nsec) ==
    assignFileOffsetsLoop(
        [ secs |-> secs, syms |-> syms,
          Offset |-> U32(U64Add(U32(U64Add(U32(start),
                        U64Of(IF big THEN Header32Size ELSE Header16Size))),
                        U64Of(SectionSize * nsec))) ],
        1)

(***************************************************************************)
(* writeObject, third part: writing.  A written record carries the number  *)
(* of bytes it takes in the stream.                                        *)
(***************************************************************************)
\* W.write<uint16_t>(static_cast<int16_t>(v)) and W.write<uint32_t>(v) for a
\* 32-bit signed v: the width of the field and the bits it takes, as an
\* unsigned value.
Write16(v) == [ width |-> 16, bits |-> U64Of(v % 65536) ]
Write32(v) == [ width |-> 32, bits |-> IF v >= 0 THEN U64Of(v) ELSE U64(255, Limb + v) ]

WriteFileHeader(H, big) ==
    [ kind |-> "header", bytes |-> U64Of(IF big THEN Header32Size ELSE Header16Size),
      big |-> big,
      NumberOfSections |-> H.NumberOfSections,
      NumberOfSectionsField |-> IF big THEN Write32(H.NumberOfSections)
                                ELSE Write16(H.NumberOfSections),
      PointerToSymbolTable |-> H.PointerToSymbolTable,
      NumberOfSymbols |-> H.NumberOfSymbols ]

RECURSIVE InsertByNumber(_, _)
InsertByNumber(sorted, p) ==
    IF sorted = <<>> THEN <<p>>
    ELSE IF Sections[p].Number < Sections[Head(sorted)].Number
    THEN <<p>> \o sorted
    ELSE <<Head(sorted)>> \o InsertByNumber(Tail(sorted), p)

\* The section pointers stay in definition order.
SortByNumber_Unsorted(n) == [i \in 1..n |-> i]

RECURSIVE SortByNumber(_)
\* llvm::sort of the section pointers by Number (positions 1..n of Sections).
SortByNumber(n) ==
    IF n = 0 THEN <<>> ELSE InsertByNumber(SortByNumber(n - 1), n)

SectionHeaderRecord(p) ==
    LET S == Sections[p]
    IN  [ kind |-> "section_header", bytes |-> U64Of(SectionSize), section |-> p,
          Name |-> S.HeaderName,
          SizeOfRawData |-> S.SizeOfRawData,
          PointerToRawData |-> S.PointerToRawData,
          PointerToRelocations |-> S.PointerToRelocations,
          NumberOfRelocations |-> S.NumberOfRelocations,
          NRELOC_OVFL |-> RelocCount(S.Relocations) >= RelocOverflow ]

RECURSIVE SectionHeaderRecords(_)
SectionHeaderRecords(Arr) ==
    IF Arr = <<>> THEN <<>>
    ELSE (IF Sections[Head(Arr)].Number = -1 THEN <<>>
          ELSE << SectionHeaderRecord(Head(Arr)) >>)
         \o SectionHeaderRecords(Tail(Arr))

writeSectionHeaders == SectionHeaderRecords(SortByNumber(Len(Sections)))

RECURSIVE RelocationRecords(_, _, _)
RelocationRecords(relocs, p, k) ==
    IF k > Len(relocs) THEN <<>>
    ELSE << [ kind |-> "relocation", bytes |-> U64Of(RelocationSize * relocs[k].n),
              synthetic |-> FALSE, section |-> p, from |-> k,
              VirtualAddress |-> 0,
              SymbolTableIndex |-> relocs[k].SymbolTableIndex ] >>
         \o RelocationRecords(relocs, p, k + 1)

\* The records writeSection writes for section p when the stream is at
\* position pos (W.OS.tell(), 64 bits); insane is set when one of its
\* assertions fails.
writeSection(p, pos) ==
    LET Sec == Sections[p]
        hasData == Sec.PointerToRawData # U64(0, 0)
        behind == ~U64Le(pos, Sec.PointerToRawData)
        PaddingSize == IF behind THEN U64(0, 0) ELSE U64Sub(Sec.PointerToRawData, pos)
        data == IF hasData
                THEN << [ kind |-> "zeros", bytes |-> PaddingSize, section |-> p ],
                        [ kind |-> "contents", bytes |-> Sec.AddressSize, section |-> p ] >>
                ELSE <<>>
        pos1 == IF hasData
                THEN U64Add(U64Add(pos, PaddingSize), Sec.AddressSize)
                ELSE pos
        nrel == RelocCount(Sec.Relocations)
        first == IF nrel >= RelocOverflow
                 THEN << [ kind |-> "relocation", bytes |-> U64Of(RelocationSize),
                           synthetic |-> TRUE, section |-> p, from |-> 0,
                           VirtualAddress |-> nrel + 1,
                           SymbolTableIndex |-> 0 ] >>
                 ELSE <<>>
    IN  IF Sec.Number = -1
        THEN [ recs |-> <<>>, insane |-> FALSE, crc |-> FALSE ]
        ELSE [ recs |-> data \o (IF nrel = 0 THEN <<>>
                                 ELSE first \o RelocationRecords(Sec.Relocations, p, 1)),
               crc |-> hasData,
               insane |-> \/ hasData /\ (behind \/ ~U64Le(PaddingSize, U64(0, 3)))
                          \/ nrel = 0 /\ Sec.PointerToRelocations # U64(0, 0)
                          \/ nrel # 0 /\ pos1 # Sec.PointerToRelocations ]

RECURSIVE Bytes(_)
\* The bytes the records take in the stream.
Bytes(recs) ==
    IF recs = <<>> THEN U64(0, 0) ELSE U64Add(Head(recs).bytes, Bytes(Tail(recs)))

RECURSIVE SymbolRecords(_, _)
\* "Write a symbol table": WriteSymbol for every symbol with an index.
SymbolRecords(i, big) ==
    IF i > Len(Symbols) THEN <<>>
    ELSE (IF Symbols[i].Index = -1 THEN <<>>
          ELSE << [ kind |-> "symbol",
                    bytes |-> U64Of((IF big THEN Symbol32Size ELSE Symbol16Size)
                                        * (1 + Len(Symbols[i].Aux))),
                    symbol |-> i,
                    SectionNumber |-> Symbols[i].SectionNumber,
                    SectionNumberField |-> IF big THEN Write32(Symbols[i].SectionNumber)
                                           ELSE Write16(Symbols[i].SectionNumber),
                    StorageClass |-> Symbols[i].StorageClass,
                    NumberOfAuxSymbols |-> Symbols[i].NumberOfAuxSymbols,
                    records |-> 1 + Len(Symbols[i].Aux) ] >>)
         \o SymbolRecords(i + 1, big)

\* The big-object header is taken only when the count does not fit 16 bits.
UseBigObjFor_Overflow16(Size) == Size > 65535

\* UseBigObj = Sections.size() > COFF::MaxNumberOfSections16
UseBigObjFor(Size) == Size > MaxNumberOfSections16

\* writeObject up to and including "Set names".
writeObject_begin ==
    /\ pc \in {"sections", "symbols", "relocs"}
    /\ LET names == FileNames
           big == UseBigObjFor(Len(Sections))
           a == assignSectionNumbers(Sections, Symbols)
           f == createFileSymbols(a.syms, names, big)
           x == AssignIndices(f, a.secs, 1, 0)
           tbl == AddLongNames(AddLongNames(<<>>, a.secs, 1), x.syms, 1)
           fatal == \E p \in 1..Len(a.secs) :
                       SetSectionName(ZeroName, a.secs[p].Name,
                                      U64Of(StringsGetOffset(tbl, a.secs[p].Name))) = FatalName
       IN  /\ UseBigObj' = big
           /\ Strings' = tbl
           /\ Sections' = [p \in 1..Len(a.secs) |->
                             [a.secs[p] EXCEPT !.HeaderName =
                                 SetSectionName(@, a.secs[p].Name,
                                     U64Of(StringsGetOffset(tbl, a.secs[p].Name)))]]
           /\ Symbols' = [i \in 1..Len(x.syms) |->
                             [x.syms[i] EXCEPT !.NameData = SetSymbolName(tbl, x.syms[i])]]
           /\ Header' = [Header EXCEPT !.NumberOfSections = Len(Sections),
                                       !.NumberOfSymbols = x.n]
           /\ pc' = IF fatal THEN "fatal" ELSE "fixups"
    /\ UNCHANGED <<SymbolMap, FileNames, out, tell, I>>
    /\ UNCHANGED <<codec, streamer, reader, signals>>

\* writeObject from the weak-external fixups through assignFileOffsets.
writeObject_layout ==
    /\ pc = "fixups"
    /\ LET w == WeakFixups(Symbols, 1)
           a == AssocFixups([ secs |-> Sections, syms |-> w, map |-> SymbolMap,
                              fatal |-> FALSE ], 1)
           o == assignFileOffsets(a.secs, a.syms, tell, UseBigObj,
                                  Header.NumberOfSections)
       IN  IF a.fatal
           THEN /\ pc' = "fatal"
                /\ Symbols' = a.syms
                /\ SymbolMap' = a.map
                /\ UNCHANGED <<Sections, Header>>
           ELSE /\ pc' = "write"
                /\ Symbols' = o.syms
                /\ Sections' = o.secs
                /\ SymbolMap' = a.map
                /\ Header' = [Header EXCEPT !.PointerToSymbolTable = o.Offset]
    /\ UNCHANGED <<UseBigObj, FileNames, Strings, out, tell, I>>
    /\ UNCHANGED <<codec, streamer, reader, signals>>

\* WriteFileHeader and writeSectionHeaders.
writeObject_headers ==
    /\ pc = "write"
    /\ LET recs == << WriteFileHeader(Header, UseBigObj) >> \o writeSectionHeaders
       IN  /\ out' = out \o recs
           /\ tell' = U64Add(tell, Bytes(recs))
    /\ I' = 1
    /\ pc' = "contents"
    /\ UNCHANGED <<Sections, Symbols, SymbolMap, Header, UseBigObj, FileNames, Strings>>
    /\ UNCHANGED <<codec, streamer, reader, signals>>

\* One round of the "Write section contents" loop.
writeObject_section ==
    /\ pc = "contents"
    /\ I <= Len(Sections)
    /\ LET w == writeSection(I, tell)
       IN  IF w.insane
           THEN /\ pc' = "assert"
                /\ UNCHANGED <<out, tell, Symbols, I>>
           ELSE /\ out' = out \o w.recs
                /\ tell' = U64Add(tell, Bytes(w.recs))
                /\ Symbols' = IF w.crc
                              THEN [Symbols EXCEPT ![Sections[I].Symbol].Aux[1].CheckSum = I]
                              ELSE Symbols
                /\ I' = I + 1
                /\ pc' = pc
    /\ UNCHANGED <<Sections, SymbolMap, Header, UseBigObj, FileNames, Strings>>
    /\ UNCHANGED <<codec, streamer, reader, signals>>

\* The end of writeObject: the symbol table and the string table.
writeObject_end ==
    /\ pc = "contents"
    /\ I > Len(Sections)
    /\ IF tell # Header.PointerToSymbolTable
       THEN /\ pc' = "assert"
            /\ UNCHANGED <<out, tell>>
       ELSE LET recs == SymbolRecords(1, UseBigObj)
                         \o << [ kind |-> "strings", bytes |-> U64Of(StringsSize(Strings)),
                                 table |-> Strings ] >>
            IN  /\ out' = out \o recs
                /\ tell' = U64Add(tell, Bytes(recs))
                /\ pc' = "done"
    /\ UNCHANGED <<Sections, Symbols, SymbolMap, Header, UseBigObj, FileNames, Strings, I>>
    /\ UNCHANGED <<codec, streamer, reader, signals>>

Next ==
    \/ \E len \in FileNameLens : addFileName(len)
    \/ \E n \in SectionNames, c \in SectionCOMDATs, k \in SectionKinds :
          defineSection(n, c[1], c[2], k)
    \/ \E m \in MCSyms, b \in {NoBase, Null} \cup (1..Len(Sections)),
          w \in BOOLEAN, a \in MCSyms \cup {NoSym}, e \in IsExternalInputs :
          DefineSymbol(m, b, w, a, e)
    \/ \E sec \in 1..Len(Sections), m \in MCSyms \cup {NoSym},
          t \in 0..Len(Sections), keep \in BOOLEAN :
          recordRelocation(sec, m, t, keep)
    \/ writeObject_begin
    \/ writeObject_layout
    \/ writeObject_headers
    \/ writeObject_section
    \/ writeObject_end

Spec == Init /\ [][Next]_vars

(***************************************************************************)
(* SpecLayout: writeObject on sections that were staged with given sizes,  *)
(* characteristics and relocation counts.  Every relocation of a section   *)
(* is against the section's own symbol, as for temporary labels.           *)
(***************************************************************************)
MaxLayoutSections == 2
\* Layout.getSectionAddressSize: small sizes, and one of 2^32 - 64 bytes
LayoutSizes == {U64(0, 0), U64(0, 1), U64(0, 6), U64(255, Limb - 64)}
\* Sec.Relocations.size()
LayoutRelocCounts == {0, 1, 65534, 65535}
LayoutKinds == BOOLEAN \X LayoutSizes \X LayoutRelocCounts

\* The section and its symbol as defineSection and n recordRelocation
\* calls leave them.
StagedSection(p, kind) ==
    [ NewSection(".text") EXCEPT
        !.Symbol = p, !.Uninitialized = kind[1], !.AddressSize = kind[2],
        !.Relocations = IF kind[3] = 0 THEN <<>>
                        ELSE << [ NewRelocation(p) EXCEPT !.n = kind[3] ] >> ]

StagedSymbol(p, kind) ==
    [ NewSymbol(".text") EXCEPT
        !.Section = p, !.StorageClass = "static",
        !.Aux = << SectionDefinitionAux(0) >>,
        !.Relocations = kind[3] ]

InitLayout ==
    /\ signals = NoSignals
    /\ \E N \in 1..MaxLayoutSections :
         \E kinds \in [1..N -> LayoutKinds] :
            /\ Sections = [p \in 1..N |-> StagedSection(p, kinds[p])]
            /\ Symbols = [p \in 1..N |-> StagedSymbol(p, kinds[p])]
    /\ SymbolMap = [m \in MCSyms |-> Null]
    /\ Header = [ NumberOfSections |-> 0, NumberOfSymbols |-> 0,
                  PointerToSymbolTable |-> U64(0, 0) ]
    /\ UseBigObj = FALSE
    /\ FileNames = <<>>
    /\ Strings = <<>>
    /\ out = <<>>
    /\ tell = U64(0, 0)
    /\ I = 1
    /\ pc = "relocs"
    /\ codec = NoCodec
    /\ streamer = NoStreamer
    /\ reader = NoReader

NextLayout ==
    \/ writeObject_begin
    \/ writeObject_layout
    \/ writeObject_headers
    \/ writeObject_section
    \/ writeObject_end

SpecLayout == InitLayout /\ [][NextLayout]_vars

(***************************************************************************)
(* SpecName: one section name on its way through the writer and the        *)
(* reader.  The writer adds a long name to the string table, asks the      *)
(* table for the name's offset and fills the header's name field; the      *)
(* reader decodes the field and, for a string-table reference, fetches the *)
(* string.  The string table is described by the one entry that matters:   *)
(* where it is, what it holds, and the size of the table.                  *)
(***************************************************************************)
\* How far the offsets tried reach beyond each base.
MaxDelta == 3

\* The section names: short ones, one of exactly 8 bytes, long ones, and
\* names that begin with a slash.
CodecNames ==
    {"", ".bss", ".textbss", ".text$mn9", "/4", "/1234567", "/long/name"}

\* What Strings.getOffset answers for a long name: values from 0, inside
\* the decimal range, around its end, around 2^24, inside the base-64
\* range, around 2^32 and around 64^6.
CodecBases ==
    { U64(0, 0), U64(0, 1234), U64(0, 9999998), U64(0, Limb - 2),
      U64(100, 54321), U64(255, Limb - 2), U64(4095, Limb - 2) }
CodecOffsets == { U64Add(b, U64Of(d)) : b \in CodecBases, d \in 0..MaxDelta }

\* A string table without names.
EmptyTable == [ Size |-> U64(0, 4), At |-> U64(0, 0), Name |-> "" ]

\* The string table after finalize() when name sits at offset Entry as the
\* last of its strings, closed by a zero byte.
TableWith(name, Entry) ==
    [ Size |-> U64Add(Entry, U64Of(Len(name) + 1)), At |-> Entry, Name |-> name ]

\* The string that starts inside another string of the table.
OtherString == "?"

\* VPEObjectFile::getString(Offset, Result) on a table whose size field,
\* 32 bits wide, was read as StringTableSize.
getString(Offset, Table) ==
    LET StringTableSize == U32(Table.Size)
    IN  IF U64Le(StringTableSize, U64(0, 4))
        THEN [ error |-> "parse_failed", Name |-> "" ]
        ELSE IF U64Le(StringTableSize, Offset)
        THEN [ error |-> "unexpected_eof", Name |-> "" ]
        ELSE [ error |-> "success",
               Name |-> IF Offset = Table.At THEN Table.Name ELSE OtherString ]

\* VPEObjectFile::getSectionName(Sec, Res); Offset and Path tell what the
\* field was decoded to and how.
getSectionName(field, Table) ==
    LET o == SectionNameOffset(field)
        Path == IF o.inline THEN "inline"
                ELSE IF startswith(o.Name, "//") THEN "base64" ELSE "decimal"
    IN  IF o.inline
        THEN [ error |-> "success", Name |-> o.Name, Offset |-> o.Offset, Path |-> Path ]
        ELSE IF o.Offset = U64Error
        THEN [ error |-> "parse_failed", Name |-> "", Offset |-> o.Offset, Path |-> Path ]
        ELSE LET r == getString(o.Offset, Table)
             IN  [ error |-> r.error, Name |-> r.Name, Offset |-> o.Offset, Path |-> Path ]

InitName ==
    /\ signals = NoSignals
    /\ WriterIdle
    /\ pc = "names"
    /\ \E name \in CodecNames, Entry \in CodecOffsets :
          codec = [ step |-> "named", Name |-> name, Entry |-> Entry ]
    /\ streamer = NoStreamer
    /\ reader = NoReader

\* writeObject's "Build string table" and "Set names" for the section.
codec_SetSectionName ==
    /\ codec.step = "named"
    /\ LET long == Len(codec.Name) > NameSize
           field == SetSectionName(ZeroName, codec.Name, codec.Entry)
       IN  codec' = [ step |-> IF field = FatalName THEN "fatal" ELSE "written",
                      Name |-> codec.Name, Entry |-> codec.Entry,
                      Field |-> field,
                      Table |-> IF long THEN TableWith(codec.Name, codec.Entry)
                                ELSE EmptyTable ]
    /\ UNCHANGED <<writerVars, streamer, reader, signals>>

\* The reader's getSectionName on the written header and string table.
codec_getSectionName ==
    /\ codec.step = "written"
    /\ LET r == getSectionName(codec.Field, codec.Table)
       IN  codec' = [ step |-> "read", Name |-> codec.Name, Entry |-> codec.Entry,
                      Field |-> codec.Field, Table |-> codec.Table,
                      error |-> r.error, Res |-> r.Name,
                      Offset |-> r.Offset, Path |-> r.Path ]
    /\ UNCHANGED <<writerVars, streamer, reader, signals>>

NextName ==
    \/ codec_SetSectionName
    \/ codec_getSectionName

SpecName == InitName /\ [][NextName]_vars

(***************************************************************************)
(* Properties of the writer.                                               *)
(***************************************************************************)
Staging == {"sections", "symbols", "relocs"}
\* writeObject has numbered the sections and indexed the symbols
Numbered == pc \in {"fixups", "write", "contents", "done"}

Written(k) == SelectSeq(out, LAMBDA r : r.kind = k)

RECURSIVE SumRecords(_, _)
\* 1 + the number of auxiliary records, summed over the first n symbols
SumRecords(syms, n) ==
    IF n = 0 THEN 0 ELSE SumRecords(syms, n - 1) + 1 + Len(syms[n].Aux)

RECURSIVE WrittenSymbolRecords(_)
WrittenSymbolRecords(recs) ==
    IF recs = <<>> THEN 0
    ELSE Head(recs).records + WrittenSymbolRecords(Tail(recs))

\* The section that owns the COMDAT symbol of section p, Null if none.
AssociatedSection(p) ==
    IF Sections[p].COMDAT = NoSym \/ SymbolMap[Sections[p].COMDAT] = Null
    THEN Null
    ELSE Symbols[SymbolMap[Sections[p].COMDAT]].Section

IsAssoc(p) == isAssociative(Symbols, Sections[p])

\* C1: a relocation is in the output only when every symbol has its table
\* index, the index field of every written relocation is the index of the
\* symbol recordRelocation attached to it, and an index, once assigned by
\* writeObject, does not change any more.
C1_IndicesFinal ==
    pc \notin Staging =>
        \A i \in 1..Len(Symbols) : Symbols'[i].Index = Symbols[i].Index
C1_RelocationState ==
    \A k \in 1..Len(out) :
        (out[k].kind = "relocation" /\ ~out[k].synthetic) =>
            /\ \A i \in 1..Len(Symbols) : Symbols[i].Index >= 0
            /\ out[k].SymbolTableIndex =
                  Symbols[Sections[out[k].section].Relocations[out[k].from].Symb].Index
C1_RelocationsAfterIndices == [](C1_RelocationState) /\ [][C1_IndicesFinal]_vars
\* a relocation against a symbol whose index is not 0 has been written
C1_Witness ==
    /\ pc = "done"
    /\ \E k \in 1..Len(out) :
          out[k].kind = "relocation" /\ out[k].SymbolTableIndex > 0

\* C2: after assignSectionNumbers the numbers are exactly 1..N without
\* duplicates, every non-associative section has a smaller number than
\* every associative one, and within each group the numbers increase in
\* definition order.
C2_SectionNumbers ==
    Numbered =>
        LET N == Len(Sections) IN
        /\ { Sections[p].Number : p \in 1..N } = 1..N
        /\ \A p, q \in 1..N : p # q => Sections[p].Number # Sections[q].Number
        /\ \A p, q \in 1..N :
              (~IsAssoc(p) /\ IsAssoc(q)) => Sections[p].Number < Sections[q].Number
        /\ \A p, q \in 1..N :
              (p < q /\ IsAssoc(p) = IsAssoc(q)) => Sections[p].Number < Sections[q].Number
\* three numbered sections, an associative one defined before a
\* non-associative one
C2_Witness ==
    /\ pc = "fixups"
    /\ Len(Sections) = 3
    /\ \E p, q \in 1..3 : p < q /\ IsAssoc(p) /\ ~IsAssoc(q)

\* C3: when B is associative to A (the section that owns B's COMDAT
\* symbol) and B is defined before A, A has the smaller section number.
C3_AssociatedNumberedFirst ==
    Numbered =>
        \A A, B \in 1..Len(Sections) :
            (IsAssoc(B) /\ AssociatedSection(B) = A /\ B < A) =>
                Sections[A].Number < Sections[B].Number

\* C4: when writeObject is done each symbol's index is the sum of
\* (1 + number of auxiliary records) over the symbols created before it,
\* the header's symbol count is that sum over all symbols and is the number
\* of symbol-table records written, and a symbol with an owning section
\* has that section's number as its section number.
C4_SymbolIndices ==
    pc = "done" =>
        /\ \A i \in 1..Len(Symbols) : Symbols[i].Index = SumRecords(Symbols, i - 1)
        /\ Header.NumberOfSymbols = SumRecords(Symbols, Len(Symbols))
        /\ Header.NumberOfSymbols = WrittenSymbolRecords(Written("symbol"))
        /\ \A i \in 1..Len(Symbols) :
              Symbols[i].Section # Null =>
                  Symbols[i].SectionNumber = Sections[Symbols[i].Section].Number

\* The stream position before the k-th written record.
Pos(k) == Bytes(SubSeq(out, 1, k - 1))

\* C5: no assertion of writeSection or writeObject about the stream
\* position fails: before a section's content the position is at most the
\* section's raw-data pointer and fewer than 4 bytes below it, before a
\* non-empty relocation list it is the section's relocation pointer, and
\* after the last section it is the header's symbol-table pointer.
C5_StreamPositions ==
    /\ pc # "assert"
    /\ \A k \in 1..Len(out) :
          /\ out[k].kind = "contents" =>
                LET ptr == Sections[out[k].section].PointerToRawData
                IN  /\ U64Le(Pos(k - 1), ptr)
                    /\ U64Le(ptr, U64Add(Pos(k - 1), U64(0, 3)))
                    /\ Pos(k) = ptr
          /\ ( /\ out[k].kind = "relocation"
               /\ out[k - 1].kind # "relocation" \/ out[k - 1].section # out[k].section ) =>
                Pos(k) = Sections[out[k].section].PointerToRelocations
          /\ out[k].kind = "symbol" /\ out[k - 1].kind # "symbol" =>
                Pos(k) = Header.PointerToSymbolTable
    /\ (pc = "contents" /\ I > Len(Sections)) => tell = Header.PointerToSymbolTable

\* The bytes the relocation list of section S takes in the file.
RelocationBytes(S) ==
    LET n == RelocCount(S.Relocations)
    IN  U64Of(IF n >= RelocOverflow THEN RelocationSize * (n + 1) ELSE RelocationSize * n)

RECURSIVE RegionEnd(_)
\* Where the file regions of the first p sections end.
RegionEnd(p) ==
    IF p = 0
    THEN U64Of((IF UseBigObj THEN Header32Size ELSE Header16Size)
               + SectionSize * Len(Sections))
    ELSE IF Sections[p].Relocations # <<>>
    THEN U64Add(Sections[p].PointerToRelocations, RelocationBytes(Sections[p]))
    ELSE IF ~Sections[p].Uninitialized
    THEN U64Add(Sections[p].PointerToRawData, Sections[p].AddressSize)
    ELSE RegionEnd(p - 1)

\* The regions assigned to raw data and relocations, as <<section, what,
\* first byte, byte after the last>>.
Regions ==
    { <<p, "data", Sections[p].PointerToRawData,
        U64Add(Sections[p].PointerToRawData, Sections[p].AddressSize)>> :
        p \in { q \in 1..Len(Sections) : ~Sections[q].Uninitialized } }
    \cup
    { <<p, "relocations", Sections[p].PointerToRelocations,
        U64Add(Sections[p].PointerToRelocations, RelocationBytes(Sections[p]))>> :
        p \in { q \in 1..Len(Sections) : Sections[q].Relocations # <<>> } }

\* C6: after assignFileOffsets every section without the uninitialized-data
\* flag has as raw-data pointer the end of the regions before it rounded up
\* to a multiple of 4, an uninitialized-data section has raw-data pointer
\* 0, a section's relocations start directly after its data, the
\* symbol-table pointer is the end of the last region, and the regions
\* overlap neither each other nor the headers.
C6_FileOffsets ==
    pc \in {"write", "contents", "done"} =>
        /\ \A p \in 1..Len(Sections) :
              LET S == Sections[p] IN
              /\ ~S.Uninitialized =>
                    /\ S.PointerToRawData[2] % 4 = 0
                    /\ U64Le(RegionEnd(p - 1), S.PointerToRawData)
                    /\ U64Le(S.PointerToRawData, U64Add(RegionEnd(p - 1), U64(0, 3)))
              /\ S.Uninitialized => S.PointerToRawData = U64(0, 0)
              /\ S.Relocations = <<>> => S.PointerToRelocations = U64(0, 0)
              /\ S.Relocations # <<>> =>
                    S.PointerToRelocations =
                        IF S.Uninitialized THEN RegionEnd(p - 1)
                        ELSE U64Add(S.PointerToRawData, S.AddressSize)
        /\ Header.PointerToSymbolTable = RegionEnd(Len(Sections))
        /\ \A r \in Regions : U64Le(RegionEnd(0), r[3])
        /\ \A r1, r2 \in Regions :
              r1 # r2 => (U64Le(r1[4], r2[3]) \/ U64Le(r2[4], r1[3]))

\* VPEObjectFile::getSection(Index, Result) over a section table of
\* NumberOfSections headers: the position of the header in the table,
\* 0 for no section, -1 for parse_failed.
getSection(Index, NumberOfSections) ==
    IF Index <= 0 THEN 0
    ELSE IF Index <= NumberOfSections THEN Index
    ELSE -1

\* C7: the section headers are written in increasing section-number order,
\* the k-th header belonging to the section numbered k, while the contents
\* are written in definition order; getSection(k) on the written table
\* gives, for a symbol with section number k, the header of its section.
C7_HeadersByNumber ==
    pc \in {"contents", "done"} =>
        LET hdrs == Written("section_header")
            data == Written("contents")
        IN  /\ Len(hdrs) = Len(Sections)
            /\ \A k \in 1..Len(hdrs) : Sections[hdrs[k].section].Number = k
            /\ \A a, b \in 1..Len(data) : a < b => data[a].section < data[b].section
            /\ \A i \in 1..Len(Symbols) :
                  Symbols[i].Section # Null =>
                      LET k == getSection(Symbols[i].SectionNumber, Len(hdrs))
                      IN  k >= 1 /\ hdrs[k].section = Symbols[i].Section
\* two sections whose number order differs from their definition order
C7_Witness ==
    /\ pc = "done"
    /\ \E p, q \in 1..Len(Sections) : p < q /\ Sections[p].Number > Sections[q].Number
    /\ Len(Written("contents")) >= 2

RECURSIVE DecimalString(_)
\* The decimal digits of n, without leading zeros.
DecimalString(n) ==
    IF n < 10 THEN CharAt(Digits, n + 1)
    ELSE DecimalString(n \div 10) \o CharAt(Digits, (n % 10) + 1)

\* The name field that holds the bytes of str followed by zero bytes.
Padded(str) ==
    [i \in 1..NameSize |-> IF i <= Len(str) THEN CharAt(str, i) ELSE NUL]

RECURSIVE Base64Value(_, _, _)
\* The value of the characters i..NameSize of the field as base-64 digits,
\* most significant first, on top of acc; U64Error if one is no digit.
Base64Value(field, i, acc) ==
    IF i > NameSize THEN acc
    ELSE IF IndexIn(field[i], Alphabet, 1) < 0 THEN U64Error
    ELSE Base64Value(field, i + 1, U64Mul64Add(acc, IndexIn(field[i], Alphabet, 1)))

\* The name has passed SetSectionName
NameSet == codec.step \in {"written", "read", "fatal"}
LongName == Len(codec.Name) > NameSize

\* C8: SetSectionName stores a name of at most 8 bytes inline; for a longer
\* name it stores '/' and the decimal offset when the offset is at most
\* 9,999,999, '//' and 6 base-64 characters of the offset when it is from
\* 10,000,000 to 64^6-1, and ends in a fatal error for a larger offset;
\* the string table holds the long name, closed by a zero byte, there.
C8_SectionNameField ==
    NameSet =>
        /\ ~LongName => codec.step # "fatal" /\ codec.Field = Padded(codec.Name)
        /\ (LongName /\ U64Le(codec.Entry, U64(0, 9999999))) =>
              /\ codec.step # "fatal"
              /\ codec.Field = Padded("/" \o DecimalString(codec.Entry[2]))
        /\ ( /\ LongName
             /\ U64Le(U64(0, 10000000), codec.Entry)
             /\ U64Le(codec.Entry, U64(4095, Limb - 1)) ) =>
              /\ codec.step # "fatal"
              /\ codec.Field[1] = "/" /\ codec.Field[2] = "/"
              /\ Base64Value(codec.Field, 3, U64(0, 0)) = codec.Entry
        /\ (LongName /\ ~U64Le(codec.Entry, U64(4095, Limb - 1))) =>
              codec.step = "fatal"
        /\ (LongName /\ codec.step # "fatal") =>
              /\ codec.Table.At = codec.Entry
              /\ codec.Table.Name = codec.Name
              /\ codec.Table.Size = U64Add(codec.Entry, U64Of(Len(codec.Name) + 1))
\* offset 10,000,000, the first in base 64, has been stored as //AAmJaA
C8_Witness ==
    /\ codec.step = "written"
    /\ LongName
    /\ codec.Entry = U64(0, 10000000)
    /\ codec.Field = Padded("//AAmJaA")

\* C9: for a string-table offset from 0 through 0xFFFFFFFF the reader's
\* getSectionName decodes the field SetSectionName made for it to the same
\* offset, by the decimal path up to 9,999,999 and by the base-64 path
\* from 10,000,000 on.
C9_OffsetRoundTrip ==
    (codec.step = "read" /\ LongName /\ U64Le(codec.Entry, UInt32Max)) =>
        /\ codec.Offset = codec.Entry
        /\ codec.Path = IF U64Le(codec.Entry, Max7DecimalOffset)
                        THEN "decimal" ELSE "base64"
\* offset 0xFFFFFFFF has come back by the base-64 path
C9_Witness ==
    /\ codec.step = "read"
    /\ LongName
    /\ codec.Entry = UInt32Max
    /\ codec.Path = "base64"
    /\ codec.Offset = UInt32Max

\* C10 as stated: for every section name, of any length and any leading
\* character, getSectionName returns the supplied name.
C10_AnyNameRoundTrip ==
    codec.step = "read" =>
        codec.error = "success" /\ codec.Res = codec.Name

\* C10, amended: for every section name that is longer than 8 bytes or
\* does not begin with '/', written with a string table of less than
\* 2^32 bytes, getSectionName returns the supplied name.
C10_NameRoundTrip ==
    ( /\ codec.step = "read"
      /\ LongName \/ ~startswith(codec.Name, "/")
      /\ U64Le(codec.Table.Size, UInt32Max) ) =>
        codec.error = "success" /\ codec.Res = codec.Name
\* a long name that begins with '/' has come back from an offset in the
\* base-64 range
C10_Witness ==
    /\ codec.step = "read"
    /\ codec.Name = "/long/name"
    /\ codec.Path = "base64"
    /\ codec.Res = codec.Name

(***************************************************************************)
(* Relocation overflow                                                     *)
(***************************************************************************)
\* The relocation records written for section p, in stream order.
RelocsOf(p) == SelectSeq(out, LAMBDA r : r.kind = "relocation" /\ r.section = p)

\* The written header of section p.
HeaderOf(p) == SelectSeq(out, LAMBDA r : r.kind = "section_header" /\ r.section = p)

\* C11: a section with n relocations, n >= 65535, has 0xFFFF as its header
\* count and the relocation-overflow characteristic, and one synthetic
\* relocation with virtual address n + 1 is written before the n real ones
\* and counted in the file offsets; with n <= 65534 the header count is n
\* and no synthetic relocation is written.
C11_RelocationOverflow ==
    \A p \in 1..Len(Sections) :
        LET n == RelocCount(Sections[p].Relocations)
            h == HeaderOf(p)
            R == RelocsOf(p)
            room == IF n >= 65535 THEN n + 1 ELSE n
        IN  /\ h # <<>> =>
                /\ h[1].NumberOfRelocations = (IF n >= 65535 THEN 65535 ELSE n)
                /\ h[1].NRELOC_OVFL = (n >= 65535)
            /\ (pc \in {"contents", "done"} /\ I > p) =>
                /\ Bytes(R) = U64Of(RelocationSize * room)
                /\ n >= 65535 =>
                      /\ R[1].synthetic
                      /\ R[1].VirtualAddress = n + 1
                      /\ \A k \in 2..Len(R) : ~R[k].synthetic
                /\ n <= 65534 => \A k \in 1..Len(R) : ~R[k].synthetic
            /\ (pc \in {"write", "contents", "done"} /\ p = Len(Sections) /\ n > 0) =>
                Header.PointerToSymbolTable =
                    U32(U64Add(Sections[p].PointerToRelocations,
                               U64Of(RelocationSize * room)))

C11_Witness ==
    /\ pc = "done"
    /\ \E p, q \in 1..Len(Sections) :
          /\ RelocCount(Sections[p].Relocations) = 65535
          /\ RelocCount(Sections[q].Relocations) = 65534
          /\ Len(RelocsOf(p)) = 2
          /\ RelocsOf(p)[1].synthetic
          /\ Len(RelocsOf(q)) = 1
          /\ HeaderOf(p)[1].NumberOfRelocations = 65535
          /\ HeaderOf(q)[1].NumberOfRelocations = 65534

(***************************************************************************)
(* The reader's relocation range over the written file.  The buffer is the *)
(* stream `out`; an address is an offset from base().                      *)
(***************************************************************************)
nullptr == <<-1, -1>>

\* Binary::checkOffset on a buffer of Size bytes: TRUE when the Len bytes
\* at Addr are not all inside the buffer.
checkOffset(Size, Addr, Length) == ~U64Le(U64Add(Addr, Length), Size)

\* vpe_section::hasExtendedRelocations of a section header
hasExtendedRelocations(Sec) == Sec.NumberOfRelocations = 65535

\* The relocation entry at an offset of the buffer.
RelocationAt(Addr) ==
    out[CHOOSE k \in 1..Len(out) : out[k].kind = "relocation" /\ Pos(k) = Addr]

getNumberOfRelocations(Sec) ==
    IF hasExtendedRelocations(Sec)
    THEN IF checkOffset(Bytes(out), Sec.PointerToRelocations, U64Of(RelocationSize))
         THEN 0
         ELSE RelocationAt(Sec.PointerToRelocations).VirtualAddress - 1
    ELSE Sec.NumberOfRelocations

\* The first relocation entry is taken for a relocation of the section.
getFirstReloc_NoSkip(Sec) ==
    LET NumRelocs == getNumberOfRelocations(Sec)
        begin == Sec.PointerToRelocations
    IN  IF NumRelocs = 0 THEN nullptr
        ELSE IF checkOffset(Bytes(out), begin, U64Of(RelocationSize * NumRelocs))
        THEN nullptr
        ELSE begin

getFirstReloc(Sec) ==
    LET NumRelocs == getNumberOfRelocations(Sec)
        begin == IF hasExtendedRelocations(Sec)
                 THEN U64Add(Sec.PointerToRelocations, U64Of(RelocationSize))
                 ELSE Sec.PointerToRelocations
    IN  IF NumRelocs = 0 THEN nullptr
        ELSE IF checkOffset(Bytes(out), begin, U64Of(RelocationSize * NumRelocs))
        THEN nullptr
        ELSE begin

section_rel_begin(Sec) == getFirstReloc(Sec)

section_rel_end(Sec) ==
    LET first == getFirstReloc(Sec)
    IN  IF first # nullptr
        THEN U64Add(first, U64Of(RelocationSize * getNumberOfRelocations(Sec)))
        ELSE nullptr

\* The position in `out` of the record holding real relocation k of
\* section p.
RealReloc(p, k) ==
    CHOOSE i \in 1..Len(out) :
        /\ out[i].kind = "relocation" /\ out[i].section = p
        /\ ~out[i].synthetic /\ out[i].from = k

\* C12: on the writer's finished output the reader's getNumberOfRelocations
\* returns the section's relocation count n, and the range from
\* section_rel_begin to section_rel_end starts at the first real relocation,
\* past the synthetic entry, and ends after the last of the n real ones.
C12_ReaderRelocations ==
    pc = "done" =>
        \A p \in 1..Len(Sections) :
            LET n == RelocCount(Sections[p].Relocations)
                Sec == HeaderOf(p)[1]
                last == RealReloc(p, Len(Sections[p].Relocations))
            IN  /\ getNumberOfRelocations(Sec) = n
                /\ n = 0 => /\ section_rel_begin(Sec) = nullptr
                            /\ section_rel_end(Sec) = nullptr
                /\ n > 0 => /\ section_rel_begin(Sec) = Pos(RealReloc(p, 1))
                            /\ section_rel_end(Sec) = U64Add(Pos(last), out[last].bytes)
                            /\ section_rel_end(Sec) =
                                  U64Add(section_rel_begin(Sec), U64Of(RelocationSize * n))

C12_Witness ==
    /\ pc = "done"
    /\ \E p \in 1..Len(Sections) :
          /\ RelocCount(Sections[p].Relocations) = 65535
          /\ hasExtendedRelocations(HeaderOf(p)[1])
          /\ getNumberOfRelocations(HeaderOf(p)[1]) = 65535
          /\ section_rel_begin(HeaderOf(p)[1]) =
                U64Add(Sections[p].PointerToRelocations, U64Of(RelocationSize))

(***************************************************************************)
(* Weak externals                                                          *)
(***************************************************************************)
FixedUp == pc \in {"write", "contents", "done", "assert"}

\* Symbol i has a record in the written symbol table.
InSymbolTable(i) == \E k \in 1..Len(out) : out[k].kind = "symbol" /\ out[k].symbol = i

\* C13: a symbol with a fallback (Other) has exactly one auxiliary record,
\* of the weak-external variant, when the weak-external fixup runs; after
\* the fixup its tag index is the index of the fallback symbol, and the
\* fallback symbol is written to the symbol table.
C13_WeakExternalFixup ==
    \A i \in 1..Len(Symbols) :
        Symbols[i].Other # Null =>
            /\ Len(Symbols[i].Aux) = 1
            /\ Symbols[i].Aux[1].AuxType = "ATWeakExternal"
            /\ FixedUp =>
                  /\ Symbols[Symbols[i].Other].Index >= 0
                  /\ Symbols[i].Aux[1].TagIndex = Symbols[Symbols[i].Other].Index
            /\ pc = "done" => InSymbolTable(Symbols[i].Other)

C13_Witness ==
    /\ pc = "done"
    /\ \E i \in 1..Len(Symbols) :
          /\ Symbols[i].Other # Null
          /\ Symbols[i].Aux[1].TagIndex = Symbols[Symbols[i].Other].Index
          /\ Symbols[i].Aux[1].TagIndex > 0
          /\ InSymbolTable(Symbols[i].Other)

\* The name of the default DefineSymbol synthesizes for weak external m.
WeakName(m) == ".weak." \o m \o ".default"

Named(syms, name) == {i \in 1..Len(syms) : syms[i].Name = name}

\* A DefineSymbol step on weak external m without a linked symbol, the base
\* symbol's section being Sec: one symbol named .weak.<m>.default is new, it
\* is the fallback of m, and it is absolute when Sec is null and in Sec
\* otherwise; the only other symbol that can be new is m's own.
C14_DefineWeak ==
    \A m \in MCSyms, b \in {NoBase, Null} \cup (1..Len(Sections)), e \in IsExternalInputs :
        (DefineSymbol(m, b, TRUE, NoSym, e) /\ pc' = "symbols") =>
            LET Sec == IF b = NoBase THEN Null ELSE b
                new == Named(Symbols', WeakName(m)) \ Named(Symbols, WeakName(m))
                d == CHOOSE i \in new : TRUE
                added == (1..Len(Symbols')) \ (1..Len(Symbols))
            IN  /\ Cardinality(new) = 1
                /\ added \subseteq {d, SymbolMap'[m]}
                /\ \A i \in 1..Len(Symbols) :
                      i # SymbolMap'[m] => Symbols'[i] = Symbols[i]
                /\ Symbols'[SymbolMap'[m]].Other = d
                /\ Sec = Null => /\ Symbols'[d].SectionNumber = IMAGE_SYM_ABSOLUTE
                                 /\ Symbols'[d].Section = Null
                /\ Sec # Null => Symbols'[d].Section = Sec

\* After writeObject a weak external whose fallback is its synthesized
\* default has the default's index as its tag index, and the default has
\* the number of its section, or is absolute.
C14_DefaultWritten ==
    pc = "done" =>
        \A i \in 1..Len(Symbols) :
            LET d == Symbols[i].Other
            IN  (d # Null /\ Symbols[d].Name = WeakName(Symbols[i].Name)) =>
                    /\ Symbols[i].Aux[1].TagIndex = Symbols[d].Index
                    /\ InSymbolTable(d)
                    /\ Symbols[d].SectionNumber =
                          IF Symbols[d].Section = Null THEN IMAGE_SYM_ABSOLUTE
                          ELSE Sections[Symbols[d].Section].Number

\* C14: DefineSymbol on a weak external without an explicit default creates
\* exactly one new symbol named .weak.<name>.default, absolute when the weak
\* symbol has no section and otherwise in the weak symbol's section, and
\* after writeObject the weak symbol's tag index is that symbol's index.
C14_WeakDefault == [][C14_DefineWeak]_vars /\ [](C14_DefaultWritten)

\* a written object with a weak external whose default is in a section
C14_Witness ==
    /\ pc = "done"
    /\ \E i \in 1..Len(Symbols) :
          LET d == Symbols[i].Other
          IN  /\ d # Null
              /\ Symbols[d].Name = WeakName(Symbols[i].Name)
              /\ Symbols[d].Section # Null
              /\ Symbols[d].SectionNumber = Sections[Symbols[d].Section].Number
              /\ Symbols[i].Aux[1].TagIndex = Symbols[d].Index

(***************************************************************************)
(* Associative sections                                                    *)
(***************************************************************************)
\* Some associative section's COMDAT symbol has no owning section.
MissingAssociated == \E p \in 1..Len(Sections) : IsAssoc(p) /\ AssociatedSection(p) = Null

\* The fixup step of writeObject ends in the fatal error, with nothing
\* written, exactly when an associative section's COMDAT symbol has no
\* owning section.
C15_FixupStep ==
    pc = "fixups" =>
        IF MissingAssociated
        THEN pc' = "fatal" /\ out' = <<>> /\ tell' = tell
        ELSE pc' = "write"

\* After the fixup the section-definition record of an associative section
\* holds the number of the section that owns its COMDAT symbol, or, that
\* section being without a number, the number assignSectionNumbers put in.
C15_Resolved ==
    FixedUp =>
        \A p \in 1..Len(Sections) :
            IsAssoc(p) =>
                LET Assoc == AssociatedSection(p)
                    Number == Symbols[Sections[p].Symbol].Aux[1].Number
                IN  /\ Assoc # Null
                    /\ Sections[Assoc].Number # -1 => Number = Sections[Assoc].Number
                    /\ Sections[Assoc].Number = -1 => Number = Sections[p].Number

\* C15: for every associative section writeObject resolves the section that
\* owns its COMDAT symbol: that section's number is stored in the Number
\* field of the section-definition record; the field is left as it was,
\* without an error, when that section has no number; and writeObject ends
\* in a fatal error before any byte is written when there is no such section.
C15_AssociativeFixup == [][C15_FixupStep]_vars /\ [](C15_Resolved)

\* the fatal error after the number of an earlier associative section's
\* target was stored
C15_Witness ==
    /\ pc = "fatal"
    /\ out = <<>>
    /\ \E p, q \in 1..Len(Sections) :
          /\ IsAssoc(p) /\ AssociatedSection(p) = Null
          /\ IsAssoc(q) /\ AssociatedSection(q) # Null
          /\ AssociatedSection(q) # q
          /\ Symbols[Sections[q].Symbol].Aux[1].Number =
                Sections[AssociatedSection(q)].Number
          /\ Symbols[Sections[q].Symbol].Aux[1].Number # Sections[q].Number

(***************************************************************************)
(* SpecStreamer: the symbol-definition calls of MCVPEStreamer, in any      *)
(* order.  Trace keeps the last calls: for each its name, its argument,    *)
(* the symbol whose definition was open when it was made, and whether it   *)
(* reported an error.                                                      *)
(***************************************************************************)
\* The calls of one symbol definition.
DefinitionCalls == <<"begin", "class", "type", "end">>

\* StorageClass arguments: IMAGE_SYM_CLASS_STATIC and a value above
\* SSC_Invalid; Type arguments: a function type and a value above 0xffff.
StorageClasses == {3, 256}
SymbolTypes == {32, 65536}

\* Append a call to the trace, which keeps as many calls as a definition has.
Traced(Trace, call) ==
    LET t == Append(Trace, call)
    IN  IF Len(t) > Len(DefinitionCalls) THEN Tail(t) ELSE t

\* The open definition is kept when the error was reported.
BeginCOFFSymbolDef_KeepsOpen(st, S) ==
    [ st EXCEPT !.CurSymbol = IF st.CurSymbol # NoSym THEN @ ELSE S,
                !.Trace = Traced(@, [ call |-> "begin", sym |-> S, val |-> 0,
                                      open |-> st.CurSymbol,
                                      diag |-> st.CurSymbol # NoSym ]) ]

BeginCOFFSymbolDef(st, S) ==
    [ st EXCEPT !.CurSymbol = S,
                !.Trace = Traced(@, [ call |-> "begin", sym |-> S, val |-> 0,
                                      open |-> st.CurSymbol,
                                      diag |-> st.CurSymbol # NoSym ]) ]

EmitCOFFSymbolStorageClass(st, StorageClass) ==
    LET outside == st.CurSymbol = NoSym
        range == StorageClass < 0 \/ StorageClass > 255
        t == Traced(st.Trace, [ call |-> "class", sym |-> NoSym, val |-> StorageClass,
                                open |-> st.CurSymbol, diag |-> outside \/ range ])
    IN  IF outside \/ range
        THEN [ st EXCEPT !.Trace = t ]
        ELSE [ st EXCEPT !.Class[st.CurSymbol] = StorageClass, !.Trace = t ]

EmitCOFFSymbolType(st, Type) ==
    LET outside == st.CurSymbol = NoSym
        range == Type < 0 \/ Type > 65535
        t == Traced(st.Trace, [ call |-> "type", sym |-> NoSym, val |-> Type,
                                open |-> st.CurSymbol, diag |-> outside \/ range ])
    IN  IF outside \/ range
        THEN [ st EXCEPT !.Trace = t ]
        ELSE [ st EXCEPT !.Type[st.CurSymbol] = Type, !.Trace = t ]

EndCOFFSymbolDef(st) ==
    [ st EXCEPT !.CurSymbol = NoSym,
                !.Trace = Traced(@, [ call |-> "end", sym |-> NoSym, val |-> 0,
                                      open |-> st.CurSymbol,
                                      diag |-> st.CurSymbol = NoSym ]) ]

InitStreamer ==
    /\ signals = NoSignals
    /\ WriterIdle
    /\ pc = "streaming"
    /\ codec = NoCodec
    /\ streamer = NoStreamer
    /\ reader = NoReader

call_BeginCOFFSymbolDef(S) ==
    /\ pc = "streaming"
    /\ streamer' = BeginCOFFSymbolDef(streamer, S)
    /\ UNCHANGED <<writerVars, codec, reader, signals>>

call_EmitCOFFSymbolStorageClass(StorageClass) ==
    /\ pc = "streaming"
    /\ streamer' = EmitCOFFSymbolStorageClass(streamer, StorageClass)
    /\ UNCHANGED <<writerVars, codec, reader, signals>>

call_EmitCOFFSymbolType(Type) ==
    /\ pc = "streaming"
    /\ streamer' = EmitCOFFSymbolType(streamer, Type)
    /\ UNCHANGED <<writerVars, codec, reader, signals>>

call_EndCOFFSymbolDef ==
    /\ pc = "streaming"
    /\ streamer' = EndCOFFSymbolDef(streamer)
    /\ UNCHANGED <<writerVars, codec, reader, signals>>

NextStreamer ==
    \/ \E S \in MCSyms : call_BeginCOFFSymbolDef(S)
    \/ \E c \in StorageClasses : call_EmitCOFFSymbolStorageClass(c)
    \/ \E t \in SymbolTypes : call_EmitCOFFSymbolType(t)
    \/ call_EndCOFFSymbolDef

SpecStreamer == InitStreamer /\ [][NextStreamer]_vars

\* A call made in the wrong state: begin with a definition open; storage
\* class, type or end with none open.
Misuse(e) ==
    \/ e.call = "begin" /\ e.open # NoSym
    \/ e.call \in {"class", "type", "end"} /\ e.open = NoSym

\* The last calls are the calls of one definition, with arguments in range.
DefinitionMade ==
    /\ Len(streamer.Trace) = Len(DefinitionCalls)
    /\ \A k \in 1..Len(DefinitionCalls) : streamer.Trace[k].call = DefinitionCalls[k]
    /\ streamer.Trace[2].val \in 0..255
    /\ streamer.Trace[3].val \in 0..65535

\* C16: a begin with a definition open, a storage class or a type with none
\* open, and an end with none open each report an error and return; and
\* whatever calls came before, the calls begin, storage class, type, end
\* leave the symbol named in the begin with that class and that type.
C16_MisuseRecovers ==
    /\ \A k \in 1..Len(streamer.Trace) :
          Misuse(streamer.Trace[k]) => streamer.Trace[k].diag
    /\ DefinitionMade =>
          /\ streamer.Class[streamer.Trace[1].sym] = streamer.Trace[2].val
          /\ streamer.Type[streamer.Trace[1].sym] = streamer.Trace[3].val
          /\ \A k \in 2..Len(DefinitionCalls) : ~streamer.Trace[k].diag
          /\ streamer.CurSymbol = NoSym

\* a definition of a symbol made right after a begin for the other symbol
\* that was never ended
C16_Witness ==
    /\ DefinitionMade
    /\ streamer.Trace[1].open # NoSym
    /\ streamer.Trace[1].open # streamer.Trace[1].sym
    /\ streamer.Trace[1].diag
    /\ streamer.Class[streamer.Trace[1].sym] = 3
    /\ streamer.Type[streamer.Trace[1].sym] = 32
    /\ streamer.Class[streamer.Trace[1].open] = 0

\* C17: a misuse of the symbol-definition calls leaves the symbol of the
\* open definition and the storage class and type of every symbol as they
\* were before the call.
C17_MisuseFrame ==
    [][ (streamer'.Trace # <<>> /\ Misuse(streamer'.Trace[Len(streamer'.Trace)])) =>
            /\ streamer'.CurSymbol = streamer.CurSymbol
            /\ streamer'.Class = streamer.Class
            /\ streamer'.Type = streamer.Type ]_vars

(***************************************************************************)
(* SpecReader: createVPEObjectFile on a buffer.  A buffer is described by  *)
(* its size and by the values of the fields the constructor reads; a field *)
(* that lies outside the buffer is never read, except where noted.  The    *)
(* data directories of the buffers have no entry with an address, so the   *)
(* import, export, relocation, debug and load-config lookups find nothing. *)
(***************************************************************************)
sizeof_vpe_dos_header == 64
sizeof_PEMagic == 4
sizeof_vpe_pe32_header == 96
sizeof_vpe_pe32plus_header == 112
sizeof_vpe_data_directory == 8

\* The largest offset getString is called with.
MaxStringOffset == 6

\* The file header at CurPtr: the big-object header or the COFF header.
HeaderSize(Buf) == IF Buf.Big THEN Header32Size ELSE Header16Size

\* getSymbolTableEntrySize()
getSymbolTableEntrySize(Big) == IF Big THEN Symbol32Size ELSE Symbol16Size

\* Where the regions that the fields of a buffer describe end, in file
\* order: MS-DOS stub and PE magic, file header, optional header, data
\* directories, section table, symbol table, string table size, string table.
HeaderAt(Buf) == IF Buf.MZ THEN Buf.AddressOfNewExeHeader + sizeof_PEMagic ELSE 0
OptionalAt(Buf) == HeaderAt(Buf) + HeaderSize(Buf)
OptionalSize(Buf) ==
    IF Buf.Magic = "PE32_PLUS" THEN sizeof_vpe_pe32plus_header ELSE sizeof_vpe_pe32_header
DirectoriesEnd(Buf) ==
    OptionalAt(Buf) + OptionalSize(Buf) + sizeof_vpe_data_directory * Buf.NumberOfRvaAndSize
SectionsAt(Buf) == OptionalAt(Buf) + (IF Buf.Big THEN 0 ELSE Buf.SizeOfOptionalHeader)
SectionsEnd(Buf) == SectionsAt(Buf) + SectionSize * Buf.NumberOfSections
SymbolsEnd(Buf) ==
    Buf.PointerToSymbolTable + Buf.NumberOfSymbols * getSymbolTableEntrySize(Buf.Big)
StringsEnd(Buf) ==
    SymbolsEnd(Buf) + (IF Buf.StringTableSizeField < 4 THEN 4 ELSE Buf.StringTableSizeField)

Ends(Buf) ==
    { OptionalAt(Buf), SectionsEnd(Buf) }
    \cup (IF Buf.MZ
          THEN { HeaderAt(Buf), OptionalAt(Buf) + OptionalSize(Buf), DirectoriesEnd(Buf) }
          ELSE {})
    \cup (IF Buf.PointerToSymbolTable # 0
          THEN { SymbolsEnd(Buf), SymbolsEnd(Buf) + 4, StringsEnd(Buf) } ELSE {})

\* The sizes a buffer with these fields is cut to: at and one byte before
\* the end of each region.  A buffer that starts with the MS-DOS magic holds
\* the whole stub, and one with the big-object magic the whole big-object
\* header: the fields of shorter ones are not the fields described here.
Cuts(Buf) ==
    { s \in UNION { {e - 1, e} : e \in Ends(Buf) } :
        /\ s >= 0
        /\ Buf.MZ => s >= sizeof_vpe_dos_header + sizeof_PEMagic
        /\ Buf.Big => s >= Header32Size }

\* The field values of the buffers.
BufferFields ==
    [ MZ : BOOLEAN, AddressOfNewExeHeader : {64, 72}, PEMagic : BOOLEAN,
      Big : BOOLEAN, Magic : {"PE32", "PE32_PLUS", "other"},
      NumberOfRvaAndSize : {0, 2}, SizeOfOptionalHeader : {0, 112},
      NumberOfSections : {0, 2}, HasSymbolTable : BOOLEAN,
      NumberOfSymbols : {0, 2}, StringTableSizeField : {0, 3, 4, 5, 9},
      LastByteZero : BOOLEAN ]

\* An MS-DOS stub is not followed by a big-object header, and the fields
\* that are not in the file have one value.
Described(f) ==
    /\ f.MZ => ~f.Big
    /\ ~f.MZ => /\ f.PEMagic /\ f.AddressOfNewExeHeader = 64
                /\ f.Magic = "PE32" /\ f.NumberOfRvaAndSize = 0
                /\ f.SizeOfOptionalHeader = 0
    /\ f.StringTableSizeField <= 4 => f.LastByteZero
    /\ ~f.HasSymbolTable => f.StringTableSizeField = 4

\* The symbol table, when there is one, follows the section table.
WithPointer(f) ==
    [ MZ |-> f.MZ, AddressOfNewExeHeader |-> f.AddressOfNewExeHeader,
      PEMagic |-> f.PEMagic, Big |-> f.Big, Magic |-> f.Magic,
      NumberOfRvaAndSize |-> f.NumberOfRvaAndSize,
      SizeOfOptionalHeader |-> f.SizeOfOptionalHeader,
      NumberOfSections |-> f.NumberOfSections,
      NumberOfSymbols |-> f.NumberOfSymbols,
      StringTableSizeField |-> f.StringTableSizeField,
      LastByteZero |-> f.LastByteZero,
      PointerToSymbolTable |->
          IF f.HasSymbolTable
          THEN OptionalAt(f) + (IF f.Big THEN 0 ELSE f.SizeOfOptionalHeader)
                   + SectionSize * f.NumberOfSections
          ELSE 0,
      Size |-> 0 ]

\* getObject(Obj, Data, base() + Addr, Size) returns an error
OutOfBuffer(Buf, Addr, Size) == checkOffset(U64Of(Buf.Size), U64Of(Addr), U64Of(Size))

\* The object as the member initialisers leave it, with EC as given.
Failed(EC, at) ==
    [ EC |-> EC, at |-> at, init |-> "none", SymbolTable |-> FALSE, StringTable |-> FALSE,
      StringTableSize |-> 0 ]

\* A size below 4 is kept as it was read.
initSymbolTablePtr_SizeAsRead(Buf) ==
    LET Entries == Buf.NumberOfSymbols * getSymbolTableEntrySize(Buf.Big)
        StringTableOffset == Buf.PointerToSymbolTable + Entries
        StringTableSize == Buf.StringTableSizeField
    IN  IF OutOfBuffer(Buf, Buf.PointerToSymbolTable, Entries)
        THEN [ EC |-> "unexpected_eof", StringTableSize |-> 0 ]
        ELSE IF OutOfBuffer(Buf, StringTableOffset, 4)
        THEN [ EC |-> "unexpected_eof", StringTableSize |-> 0 ]
        ELSE IF OutOfBuffer(Buf, StringTableOffset, StringTableSize)
        THEN [ EC |-> "unexpected_eof", StringTableSize |-> StringTableSize ]
        ELSE IF StringTableSize > 4 /\ ~Buf.LastByteZero
        THEN [ EC |-> "parse_failed", StringTableSize |-> StringTableSize ]
        ELSE [ EC |-> "success", StringTableSize |-> StringTableSize ]

\* initSymbolTablePtr: the error code it returns and the StringTableSize
\* member it leaves.
initSymbolTablePtr(Buf) ==
    LET Entries == Buf.NumberOfSymbols * getSymbolTableEntrySize(Buf.Big)
        StringTableOffset == Buf.PointerToSymbolTable + Entries
        StringTableSize == Buf.StringTableSizeField
    IN  IF OutOfBuffer(Buf, Buf.PointerToSymbolTable, Entries)
        THEN [ EC |-> "unexpected_eof", StringTableSize |-> 0 ]
        ELSE IF OutOfBuffer(Buf, StringTableOffset, 4)
        THEN [ EC |-> "unexpected_eof", StringTableSize |-> 0 ]
        ELSE IF OutOfBuffer(Buf, StringTableOffset, StringTableSize)
        THEN [ EC |-> "unexpected_eof", StringTableSize |-> StringTableSize ]
        ELSE IF StringTableSize > 4 /\ ~Buf.LastByteZero
        THEN [ EC |-> "parse_failed", StringTableSize |-> StringTableSize ]
        ELSE [ EC |-> "success",
               StringTableSize |-> IF StringTableSize < 4 THEN 4 ELSE StringTableSize ]

\* initImportTablePtr .. initLoadConfigPtr: getDataDirectory fails, or the
\* entry's RelativeVirtualAddress is 0.
initDirectoryPtrs(Buf) == "success"

\* The constructor from "Initialize the pointer to the symbol table" on.
SymbolTableOn(Buf) ==
    IF Buf.PointerToSymbolTable # 0
    THEN LET r == initSymbolTablePtr(Buf)
         IN  IF r.EC # "success"
             THEN \* the tables are dropped and the constructor goes on
                  [ EC |-> initDirectoryPtrs(Buf), at |-> "end", init |-> r.EC,
                    SymbolTable |-> FALSE, StringTable |-> FALSE, StringTableSize |-> 0 ]
             ELSE [ EC |-> initDirectoryPtrs(Buf), at |-> "end", init |-> r.EC,
                    SymbolTable |-> TRUE, StringTable |-> TRUE,
                    StringTableSize |-> r.StringTableSize ]
    ELSE IF Buf.NumberOfSymbols # 0
    THEN Failed("parse_failed", "symbols")
    ELSE [ EC |-> initDirectoryPtrs(Buf), at |-> "end", init |-> "none",
           SymbolTable |-> FALSE, StringTable |-> FALSE, StringTableSize |-> 0 ]

\* VPEObjectFile::VPEObjectFile(Object, EC): EC and the members the
\* constructor leaves; magic is what memcmp found at AddressOfNewExeHeader.
\* NumberOfRvaAndSize of a PE32+ header is read after a test of the first
\* sizeof(vpe_pe32_header) bytes only; when it lies outside the buffer the
\* data directory does too, whatever value is read.
VPEObjectFile(Buf, magic) ==
    LET stub == Buf.Size >= sizeof_vpe_dos_header + sizeof_PEMagic /\ Buf.MZ
        HasPEHeader == stub
        CurPtr1 == IF stub THEN Buf.AddressOfNewExeHeader + sizeof_PEMagic ELSE 0
        bigobj == ~HasPEHeader /\ Buf.Big /\ Buf.Size >= Header32Size
        CurPtr2 == CurPtr1 + (IF bigobj THEN Header32Size ELSE Header16Size)
        PE32Plus == Buf.Magic = "PE32_PLUS"
        DataDirAddr == CurPtr2 + (IF PE32Plus THEN sizeof_vpe_pe32plus_header
                                  ELSE sizeof_vpe_pe32_header)
        DataDirSize == sizeof_vpe_data_directory * Buf.NumberOfRvaAndSize
        CurPtr3 == CurPtr2 + (IF bigobj THEN 0 ELSE Buf.SizeOfOptionalHeader)
    IN  IF Buf.Size < Header16Size
        THEN Failed("unexpected_eof", "header")
        ELSE IF stub /\ ~magic
        THEN Failed("parse_failed", "magic")
        ELSE IF OutOfBuffer(Buf, CurPtr1, Header16Size)
        THEN Failed("unexpected_eof", "header")
        ELSE IF HasPEHeader /\ OutOfBuffer(Buf, CurPtr2, sizeof_vpe_pe32_header)
        THEN Failed("unexpected_eof", "optional")
        ELSE IF HasPEHeader /\ Buf.Magic = "other"
        THEN Failed("parse_failed", "optional")
        ELSE IF HasPEHeader /\ OutOfBuffer(Buf, DataDirAddr, DataDirSize)
        THEN Failed("unexpected_eof", "directories")
        ELSE IF OutOfBuffer(Buf, CurPtr3, SectionSize * Buf.NumberOfSections)
        THEN Failed("unexpected_eof", "sections")
        ELSE SymbolTableOn(Buf)

InitReader ==
    /\ signals = NoSignals
    /\ WriterIdle
    /\ pc = "reading"
    /\ codec = NoCodec
    /\ streamer = NoStreamer
    /\ \E f \in BufferFields :
          /\ Described(f)
          /\ \E s \in Cuts(WithPointer(f)) :
                reader = [ step |-> "buffer", Buf |-> [WithPointer(f) EXCEPT !.Size = s] ]

\* ObjectFile::createVPEObjectFile(Object)
createVPEObjectFile ==
    /\ reader.step = "buffer"
    /\ \E magic \in BOOLEAN :
          /\ ~OutOfBuffer(reader.Buf, reader.Buf.AddressOfNewExeHeader, sizeof_PEMagic)
                => magic = reader.Buf.PEMagic
          /\ LET Obj == VPEObjectFile(reader.Buf, magic)
             IN  reader' = [ step |-> "created", Buf |-> reader.Buf, Obj |-> Obj,
                             Ret |-> IF Obj.EC # "success" THEN "error" ELSE "object" ]
    /\ UNCHANGED <<writerVars, codec, streamer, signals>>

\* getString(Offset, Result) on the object createVPEObjectFile returned.
StringOf(Obj, Offset) ==
    getString(U64Of(Offset),
              [ Size |-> U64Of(Obj.StringTableSize), At |-> U64(0, 4), Name |-> "s" ]).error

call_getString(Offset) ==
    /\ reader.step \in {"created", "read"}
    /\ reader.Ret = "object"
    /\ reader' = [ step |-> "read", Buf |-> reader.Buf, Obj |-> reader.Obj,
                   Ret |-> reader.Ret, Offset |-> Offset,
                   error |-> StringOf(reader.Obj, Offset) ]
    /\ UNCHANGED <<writerVars, codec, streamer, signals>>

NextReader ==
    \/ createVPEObjectFile
    \/ \E Offset \in 0..MaxStringOffset : call_getString(Offset)

SpecReader == InitReader /\ [][NextReader]_vars

(***************************************************************************)
(* Properties of the reader's constructor.                                 *)
(***************************************************************************)
\* The symbol table of the buffer ends inside it.
SymbolTableInside(Buf) == Buf.PointerToSymbolTable # 0 /\ SymbolsEnd(Buf) <= Buf.Size

\* The string table of the buffer, size field and strings, ends inside it.
StringTableInside(Buf) ==
    /\ SymbolTableInside(Buf)
    /\ SymbolsEnd(Buf) + 4 <= Buf.Size
    /\ SymbolsEnd(Buf) + Buf.StringTableSizeField <= Buf.Size

\* One of the regions of the buffer extends past its end: the COFF header,
\* the PE optional header, the data directories, the section table, the
\* symbol table or the string table.
Truncated(Buf) ==
    \/ OptionalAt(Buf) > Buf.Size
    \/ Buf.MZ /\ OptionalAt(Buf) + OptionalSize(Buf) > Buf.Size
    \/ Buf.MZ /\ DirectoriesEnd(Buf) > Buf.Size
    \/ SectionsEnd(Buf) > Buf.Size
    \/ Buf.PointerToSymbolTable # 0 /\ ~StringTableInside(Buf)

\* C18: for a buffer in which the COFF header, the PE optional header, the
\* data directories, the section table, the symbol table or the string
\* table extends past the end, the constructor ends with an error code that
\* is not success, and createVPEObjectFile returns the error and no object.
C18_TruncatedRejected ==
    (reader.step = "created" /\ Truncated(reader.Buf)) =>
        /\ reader.Obj.EC # "success"
        /\ reader.Ret = "error"

\* C19: when the size field of the string table is greater than 4 and the
\* last byte of the table is not zero, the construction fails with
\* parse_failed.
C19_UnterminatedRejected ==
    ( /\ reader.step = "created"
      /\ StringTableInside(reader.Buf)
      /\ reader.Buf.StringTableSizeField > 4
      /\ ~reader.Buf.LastByteZero
      /\ reader.Obj.at = "end" ) =>
        /\ reader.Obj.EC = "parse_failed"
        /\ reader.Ret = "error"

\* What memcmp can find at AddressOfNewExeHeader.
MagicReads(Buf) ==
    IF OutOfBuffer(Buf, Buf.AddressOfNewExeHeader, sizeof_PEMagic)
    THEN BOOLEAN ELSE {Buf.PEMagic}

\* C20: a buffer whose string table size field holds 0 to 3 and the buffer
\* that differs from it only in holding 4 there end the construction with
\* the same result and the same string table size, which is 4 when the
\* construction succeeds, and getString returns the same error for every
\* offset in both.
C20_SizeBelowFourIsFour ==
    ( /\ reader.step \in {"created", "read"}
      /\ reader.Buf.PointerToSymbolTable # 0
      /\ SymbolsEnd(reader.Buf) + 4 <= reader.Buf.Size
      /\ reader.Buf.StringTableSizeField < 4 ) =>
        \E magic \in MagicReads(reader.Buf) :
            LET Four == VPEObjectFile([reader.Buf EXCEPT !.StringTableSizeField = 4], magic)
            IN  /\ reader.Obj = VPEObjectFile(reader.Buf, magic)
                /\ reader.Obj.EC = Four.EC
                /\ reader.Obj.StringTableSize = Four.StringTableSize
                /\ reader.Obj.StringTable = Four.StringTable
                /\ reader.Obj.EC = "success" => reader.Obj.StringTableSize = 4
                /\ \A Offset \in 0..MaxStringOffset :
                      /\ StringOf(reader.Obj, Offset) = StringOf(Four, Offset)
                      /\ reader.Obj.EC = "success" =>
                            StringOf(reader.Obj, Offset) = "parse_failed"
                /\ reader.step = "read" =>
                      reader.error = StringOf(Four, reader.Offset)

\* getString was called on the object made from a buffer whose size field
\* holds 0
C20_Witness ==
    /\ reader.step = "read"
    /\ reader.Buf.StringTableSizeField = 0
    /\ reader.Buf.NumberOfSymbols > 0
    /\ reader.Ret = "object"
    /\ reader.Obj.StringTable
    /\ reader.Obj.StringTableSize = 4
    /\ reader.error = "parse_failed"

(***************************************************************************)
(* SpecHeader: the header step of the reader's constructor, from the read  *)
(* of the COFF header at CurPtr to the end of the big-object test, on the  *)
(* values of the fields it looks at.                                       *)
(***************************************************************************)
\* COFF::BigObjHeader::MinBigObjectVersion
MinBigObjectVersion == 2

\* Buffer sizes around sizeof(vpe_file_header) and
\* sizeof(vpe_bigobj_file_header), CurPtr without and with a PE signature
\* before the header, and the header fields.
HeaderInputs ==
    [ Size : {19, 20, 55, 56, 91, 92, 200}, CurPtr : {0, 72},
      MachineUnknown : BOOLEAN, NumberOfSections : {1, 65535},
      Version : {1, 2, 3}, UUID : BOOLEAN ]

\* vpe_file_header::isImportLibrary
isImportLibrary(NumberOfSections) == NumberOfSections = 65535

\* The error code the failed checkSize left is kept.
HeaderStep_ErrorKept(H) ==
    LET HasPEHeader == H.CurPtr # 0
        candidate == ~HasPEHeader /\ H.MachineUnknown /\ H.NumberOfSections = 65535
        room == H.Size >= Header32Size
        big == candidate /\ room /\ H.Version >= MinBigObjectVersion /\ H.UUID
    IN  IF OutOfBuffer(H, H.CurPtr, Header16Size)
        THEN [ EC |-> "unexpected_eof", VPEHeader |-> FALSE, VPEBigObjHeader |-> FALSE,
               CurPtr |-> H.CurPtr, returned |-> TRUE ]
        ELSE IF big
        THEN [ EC |-> "success", VPEHeader |-> FALSE, VPEBigObjHeader |-> TRUE,
               CurPtr |-> H.CurPtr + Header32Size, returned |-> FALSE ]
        ELSE [ EC |-> IF candidate /\ ~room THEN "unexpected_eof" ELSE "success",
               VPEHeader |-> TRUE, VPEBigObjHeader |-> FALSE,
               CurPtr |-> H.CurPtr + Header16Size,
               returned |-> isImportLibrary(H.NumberOfSections) ]

\* The constructor from getObject(VPEHeader, ...) to the isImportLibrary
\* test: EC, which header pointers are set, CurPtr, and whether the
\* constructor has returned.
HeaderStep(H) ==
    LET HasPEHeader == H.CurPtr # 0
        candidate == ~HasPEHeader /\ H.MachineUnknown /\ H.NumberOfSections = 65535
        room == H.Size >= Header32Size
        big == candidate /\ room /\ H.Version >= MinBigObjectVersion /\ H.UUID
    IN  IF OutOfBuffer(H, H.CurPtr, Header16Size)
        THEN [ EC |-> "unexpected_eof", VPEHeader |-> FALSE, VPEBigObjHeader |-> FALSE,
               CurPtr |-> H.CurPtr, returned |-> TRUE ]
        ELSE IF big
        THEN [ EC |-> "success", VPEHeader |-> FALSE, VPEBigObjHeader |-> TRUE,
               CurPtr |-> H.CurPtr + Header32Size, returned |-> FALSE ]
        ELSE [ EC |-> "success", VPEHeader |-> TRUE, VPEBigObjHeader |-> FALSE,
               CurPtr |-> H.CurPtr + Header16Size,
               returned |-> isImportLibrary(H.NumberOfSections) ]

InitHeader ==
    /\ signals = NoSignals
    /\ WriterIdle
    /\ pc = "reading"
    /\ codec = NoCodec
    /\ streamer = NoStreamer
    /\ \E H \in HeaderInputs : reader = [ step |-> "header", H |-> H ]

readHeader ==
    /\ reader.step = "header"
    /\ reader' = [ step |-> "headed", H |-> reader.H, R |-> HeaderStep(reader.H) ]
    /\ UNCHANGED <<writerVars, codec, streamer, signals>>

NextHeader == readHeader

SpecHeader == InitHeader /\ [][NextHeader]_vars

\* C21: after the header step succeeds exactly one of the regular and the
\* big-object header is set; the big-object header is the one set exactly
\* when there is no image header, the machine is unknown, the section count
\* is 0xFFFF, the buffer has room for a big-object header, the version is
\* at least the minimum and the UUID is the magic; a buffer without that
\* room is read as a regular header, without an error.
C21_HeaderChoice ==
    reader.step = "headed" =>
        LET H == reader.H
            R == reader.R
        IN  /\ R.EC = "success" =>
                /\ R.VPEHeader # R.VPEBigObjHeader
                /\ R.VPEBigObjHeader <=>
                      ( /\ H.CurPtr = 0
                        /\ H.MachineUnknown
                        /\ H.NumberOfSections = 65535
                        /\ H.Size >= 56
                        /\ H.Version >= 2
                        /\ H.UUID )
            /\ (H.CurPtr = 0 /\ H.Size >= 20 /\ H.Size < 56) =>
                /\ R.EC = "success"
                /\ R.VPEHeader
                /\ ~R.VPEBigObjHeader

\* a buffer of 55 bytes that starts like a big-object header was read as a
\* regular header
C21_Witness ==
    /\ reader.step = "headed"
    /\ reader.H.Size = 55
    /\ reader.H.CurPtr = 0
    /\ reader.H.MachineUnknown
    /\ reader.H.NumberOfSections = 65535
    /\ reader.H.Version = 2
    /\ reader.H.UUID
    /\ reader.R.VPEHeader
    /\ reader.R.EC = "success"

(***************************************************************************)
(* SpecRva: getRvaPtr on a section table.  VirtualAddress, VirtualSize,    *)
(* PointerToRawData and the RVA are 32-bit values, kept as two limbs.      *)
(***************************************************************************)
MaxRvaSections == 2

\* 32-bit values: small ones and ones near 2^32
RvaAddresses == { U64(0, 0), U64(0, 4096), U64(255, Limb - 16) }
RvaSizes == { U64(0, 0), U64(0, 8), U64(0, 32), U64(255, Limb - 1) }
RvaPointers == { U64(0, 0), U64(0, 512) }
Rvas == { U64(0, 0), U64(0, 4), U64(0, 4096), U64(0, 4100), U64(0, 4104),
          U64(255, Limb - 16), U64(255, Limb - 8), U64(255, Limb - 1) }
RvaSections ==
    [ VirtualAddress : RvaAddresses, VirtualSize : RvaSizes,
      PointerToRawData : RvaPointers ]

\* a < b
U64Lt(a, b) == ~U64Le(b, a)

RECURSIVE getRvaPtr(_, _, _)
\* getRvaPtr(Addr, Res) from section k of the table on: the error code and
\* Res as an offset from base(), a 64-bit uintptr_t.
getRvaPtr(Table, Addr, k) ==
    IF k > Len(Table) THEN [ error |-> "parse_failed", Res |-> U64(0, 0), section |-> 0 ]
    ELSE LET Section == Table[k]
             SectionStart == Section.VirtualAddress
             SectionEnd == U32(U64Add(Section.VirtualAddress, Section.VirtualSize))
         IN  IF U64Le(SectionStart, Addr) /\ U64Lt(Addr, SectionEnd)
             THEN [ error |-> "success",
                    Res |-> U64Add(Section.PointerToRawData, U32(U64Sub(Addr, SectionStart))),
                    section |-> k ]
             ELSE getRvaPtr(Table, Addr, k + 1)

InitRva ==
    /\ signals = NoSignals
    /\ WriterIdle
    /\ pc = "reading"
    /\ codec = NoCodec
    /\ streamer = NoStreamer
    /\ \E N \in 1..MaxRvaSections :
         \E Table \in [1..N -> RvaSections], Addr \in Rvas :
            reader = [ step |-> "rva", Table |-> Table, Addr |-> Addr ]

call_getRvaPtr ==
    /\ reader.step = "rva"
    /\ reader' = [ step |-> "translated", Table |-> reader.Table, Addr |-> reader.Addr,
                   R |-> getRvaPtr(reader.Table, reader.Addr, 1) ]
    /\ UNCHANGED <<writerVars, codec, streamer, signals>>

NextRva == call_getRvaPtr

SpecRva == InitRva /\ [][NextRva]_vars

\* VirtualAddress <= RVA < VirtualAddress + VirtualSize, the sum not cut to
\* 32 bits.
RvaInside(Section, RVA) ==
    /\ U64Le(Section.VirtualAddress, RVA)
    /\ U64Lt(RVA, U64Add(Section.VirtualAddress, Section.VirtualSize))

\* C22: getRvaPtr takes the RVA as inside a section exactly when
\* VirtualAddress <= RVA < VirtualAddress + VirtualSize; for the first such
\* section of the table it returns the raw-data pointer plus
\* (RVA - VirtualAddress), from the buffer base, and it returns parse_failed
\* when no section contains the RVA.
C22_RvaTranslation ==
    reader.step = "translated" =>
        LET Table == reader.Table
            RVA == reader.Addr
            holders == { k \in 1..Len(Table) : RvaInside(Table[k], RVA) }
        IN  IF holders = {}
            THEN reader.R.error = "parse_failed"
            ELSE LET k == CHOOSE i \in holders : \A j \in holders : i <= j
                 IN  /\ reader.R.error = "success"
                     /\ reader.R.section = k
                     /\ reader.R.Res =
                           U64Add(Table[k].PointerToRawData,
                                  U64Sub(RVA, Table[k].VirtualAddress))

(***************************************************************************)
(* One section, one global symbol                                          *)
(***************************************************************************)
\* The writer was given one section .text without COMDAT, one symbol m that
\* is not weak and lies in that section, at most one file name, and no
\* relocation.
OneSectionOneGlobal(m) ==
    /\ Len(Sections) = 1
    /\ Sections[1].Name = ".text"
    /\ Sections[1].COMDAT = NoSym
    /\ Len(FileNames) <= 1
    /\ RecordedRelocs(Symbols) = 0
    /\ {d \in MCSyms : IsDefined(d)} = {m}
    /\ Symbols[SymbolMap[m]].Section = 1
    /\ Symbols[SymbolMap[m]].Other = Null

\* The rest of the sentence: section count 1, the name field holds .text
\* inline, the symbol is external.
OneSectionWritten(m) ==
    /\ Written("header")[1].NumberOfSections = 1
    /\ Len(HeaderOf(1)) = 1
    /\ HeaderOf(1)[1].Name = Padded(".text")
    /\ \E k \in 1..Len(out) :
          /\ out[k].kind = "symbol"
          /\ out[k].symbol = SymbolMap[m]
          /\ out[k].StorageClass = "external"

\* C23 as stated: for a writer given one section .text, one global symbol
\* in it and no relocations, the written header has section count 1 and
\* symbol count 1, plus 1 when a file name was registered; the section
\* header's name field holds .text inline and the symbol's storage class is
\* external.
C23_SymbolCountOne ==
    \A m \in MCSyms :
        (pc = "done" /\ OneSectionOneGlobal(m)) =>
            /\ OneSectionWritten(m)
            /\ Written("header")[1].NumberOfSymbols = 1 + Len(FileNames)

\* C23, amended: the symbol count is 3, for the section-definition symbol
\* of .text, its auxiliary record and the global symbol, plus, when a file
\* name of L bytes was registered, 1 for the file symbol and the number of
\* its auxiliary records, ceil(L / 18), as its one-byte count field holds
\* it.
C23_OneSectionOneGlobal ==
    \A m \in MCSyms :
        (pc = "done" /\ OneSectionOneGlobal(m)) =>
            /\ OneSectionWritten(m)
            /\ Written("header")[1].NumberOfSymbols =
                  3 + (IF FileNames = <<>> THEN 0
                       ELSE 1 + AuxCountField(AuxCount(FileNames[1], Symbol16Size)))
\* written with a file name of 19 bytes: 3 + 1 + 2 symbol records
C23_Witness ==
    /\ pc = "done"
    /\ \E m \in MCSyms : OneSectionOneGlobal(m)
    /\ FileNames = << 19 >>
    /\ Written("header")[1].NumberOfSymbols = 6

(***************************************************************************)
(* SpecReloc: one call of recordRelocation with its fixup, target value    *)
(* and layout, on a writer that holds two sections and the symbol x.       *)
(* FixedValue and the offsets are 64-bit in the code; the inputs are small *)
(* and the values are written as integers, a negative one standing for its *)
(* two's complement.                                                       *)
(***************************************************************************)
\* Header.Machine, and for each machine the relocation types
\* TargetObjectWriter->getRelocType can name.
Machines == {"AMD64", "I386", "ARMNT", "ARM64"}
RelocTypes(Machine) ==
    CASE Machine = "AMD64" -> {"ADDR32", "REL32", "SECREL"}
      [] Machine = "I386"  -> {"DIR32", "REL32", "SECREL"}
      [] Machine = "ARM64" -> {"ADDR32", "REL32", "BRANCH26"}
      [] Machine = "ARMNT" ->
            {"ABSOLUTE", "ADDR32", "ADDR32NB", "TOKEN", "SECTION", "SECREL",
             "BRANCH11", "BLX11", "BRANCH24", "BLX24", "MOV32A", "MOV32T",
             "BRANCH20T", "BRANCH24T", "BLX23T"}

\* Types of ARMNT that end in llvm_unreachable("unsupported relocation").
UnsupportedARM == {"BRANCH11", "BLX11", "BRANCH24", "BLX24", "MOV32A"}

FixupKinds == {"FK_Data_4", "FK_PCRel_4", "FK_SecRel_2"}

\* The target symbol A: not registered; temporary and undefined; temporary
\* in a section at an offset; or the registered, not temporary symbol x.
TargetSymbols ==
    { [ isRegistered |-> FALSE, isTemporary |-> FALSE, isUndefined |-> TRUE,
        MC |-> NoSym, Section |-> Null, Offset |-> 0 ],
      [ isRegistered |-> TRUE, isTemporary |-> TRUE, isUndefined |-> TRUE,
        MC |-> NoSym, Section |-> Null, Offset |-> 0 ],
      [ isRegistered |-> TRUE, isTemporary |-> FALSE, isUndefined |-> FALSE,
        MC |-> "x", Section |-> Null, Offset |-> 5 ] }
    \cup
    { [ isRegistered |-> TRUE, isTemporary |-> TRUE, isUndefined |-> FALSE,
        MC |-> NoSym, Section |-> s, Offset |-> o ] : s \in {1, 2}, o \in {0, 16} }

\* Target.getSymB(): none, a symbol without fragment, or a symbol at an
\* offset.
SubtractedSymbols ==
    { [ present |-> FALSE, hasFragment |-> FALSE, Offset |-> 0 ],
      [ present |-> TRUE, hasFragment |-> FALSE, Offset |-> 0 ],
      [ present |-> TRUE, hasFragment |-> TRUE, Offset |-> 2 ],
      [ present |-> TRUE, hasFragment |-> TRUE, Offset |-> 12 ] }

\* (the section of the fragment, Layout.getFragmentOffset(Fragment),
\* Fixup.getOffset(), Fixup.getKind(), Target.getConstant(), the value the
\* caller's FixedValue holds before the call)
Fixups ==
    [ Section : {1, 2}, FragmentOffset : {8}, Offset : {0, 2}, Kind : FixupKinds,
      Constant : {-4, 0}, FixedValue : {77} ]

\* The error recordRelocation reports before it touches anything.
RelocationError_SubtractionUnchecked(A, SymB) ==
    IF ~A.isRegistered THEN "can not be undefined"
    ELSE IF A.isTemporary /\ A.isUndefined THEN "assembler label can not be undefined"
    ELSE "none"

RelocationError(A, SymB) ==
    IF ~A.isRegistered THEN "can not be undefined"
    ELSE IF A.isTemporary /\ A.isUndefined THEN "assembler label can not be undefined"
    ELSE IF SymB.present /\ ~SymB.hasFragment
         THEN "can not be undefined in a subtraction expression"
    ELSE "none"

\* What the machine and the type add to FixedValue.
Adjustment_NoThumb(Machine, Type) ==
    IF (Machine = "AMD64" /\ Type = "REL32") \/ (Machine = "I386" /\ Type = "REL32")
    THEN 4 ELSE 0

Adjustment(Machine, Type) ==
    (IF (Machine = "AMD64" /\ Type = "REL32") \/ (Machine = "I386" /\ Type = "REL32")
     THEN 4 ELSE 0)
    + (IF Machine = "ARMNT" /\ Type \in {"BRANCH20T", "BRANCH24T", "BLX23T"}
       THEN 4 ELSE 0)

\* FixedValue at the end of a call that reports no error.
FixedValueOf(A, SymB, Fx, Machine, Type) ==
    LET OffsetOfRelocation == Fx.FragmentOffset + Fx.Offset
        v0 == IF SymB.present
              THEN (OffsetOfRelocation - SymB.Offset) + Fx.Constant
              ELSE Fx.Constant
        v1 == IF A.isTemporary THEN v0 + A.Offset ELSE v0
        v2 == v1 + Adjustment(Machine, Type)
    IN  IF Fx.Kind = "FK_SecRel_2" THEN 0 ELSE v2

\* The writer after executePostLayoutBinding defined the sections .text and
\* .text$long and the symbol x, for one of the machines.
InitReloc ==
    /\ signals = NoSignals
    /\ pc = "relocating"
    /\ Sections = << [ NewSection(".text") EXCEPT !.Symbol = 1 ],
                     [ NewSection(".text$long") EXCEPT !.Symbol = 2 ] >>
    /\ Symbols = << [ NewSymbol(".text") EXCEPT
                        !.Section = 1, !.StorageClass = "static",
                        !.Aux = << SectionDefinitionAux(0) >> ],
                    [ NewSymbol(".text$long") EXCEPT
                        !.Section = 2, !.StorageClass = "static",
                        !.Aux = << SectionDefinitionAux(0) >> ],
                    [ NewSymbol("x") EXCEPT
                        !.Section = 1, !.StorageClass = "external", !.MC = "x" ] >>
    /\ SymbolMap = [m \in MCSyms |-> IF m = "x" THEN 3 ELSE Null]
    /\ \E Machine \in Machines :
          Header = [ NumberOfSections |-> 0, NumberOfSymbols |-> 0,
                     PointerToSymbolTable |-> U64(0, 0), Machine |-> Machine ]
    /\ UseBigObj = FALSE
    /\ FileNames = <<>>
    /\ Strings = <<>>
    /\ out = <<>>
    /\ tell = U64(0, 0)
    /\ I = 1
    /\ codec = NoCodec
    /\ streamer = NoStreamer
    /\ reader = NoReader

\* recordRelocation(Asm, Layout, Fragment, Fixup, Target, FixedValue): out
\* takes the call with the value FixedValue holds when it returns.
call_recordRelocation ==
    /\ pc = "relocating"
    /\ \E A \in TargetSymbols, SymB \in SubtractedSymbols, Fx \in Fixups,
          Type \in RelocTypes(Header.Machine), keep \in BOOLEAN :
       LET error == RelocationError(A, SymB)
           Symb == IF A.isTemporary THEN Sections[A.Section].Symbol
                   ELSE SymbolMap[A.MC]
           unreachable == Header.Machine = "ARMNT" /\ Type \in UnsupportedARM
           Reloc == NewRelocation(Symb)
           ret(fixed, e) ==
               [ kind |-> "recordRelocation", A |-> A, SymB |-> SymB, Fixup |-> Fx,
                 Type |-> Type, keep |-> keep, FixedValue |-> fixed, error |-> e ]
       IN  IF error # "none"
           THEN /\ out' = << ret(Fx.FixedValue, error) >>
                /\ pc' = "relocated"
                /\ UNCHANGED <<Sections, Symbols>>
           ELSE /\ Symbols' = [Symbols EXCEPT ![Symb].Relocations = @ + 1]
                /\ IF unreachable
                   THEN \* llvm_unreachable("unsupported relocation")
                        /\ pc' = "assert"
                        /\ out' = out
                        /\ Sections' = Sections
                   ELSE /\ pc' = "relocated"
                        /\ out' = << ret(FixedValueOf(A, SymB, Fx, Header.Machine, Type),
                                         "none") >>
                        /\ Sections' = IF keep
                                       THEN [Sections EXCEPT ![Fx.Section].Relocations =
                                                 Append(@, Reloc)]
                                       ELSE Sections
    /\ UNCHANGED <<SymbolMap, Header, UseBigObj, FileNames, Strings, tell, I>>
    /\ UNCHANGED <<codec, streamer, reader, signals>>

NextReloc == call_recordRelocation

SpecReloc == InitReloc /\ [][NextReloc]_vars

\* The call that has returned.
Recorded == out[1]

\* C24: the fixed value recordRelocation returns for a recorded relocation
\* is 0 when the fixup kind is the 2-byte section-relative kind; otherwise
\* it is the target constant, plus the relocation's offset minus the offset
\* of the subtracted symbol when there is one, plus the target symbol's
\* offset when that symbol is temporary, with 4 added exactly when the
\* machine and type are AMD64 with REL32, I386 with REL32, or ARMNT with
\* BRANCH20T, BRANCH24T or BLX23T.
C24_FixedValue ==
    (pc = "relocated" /\ Recorded.error = "none") =>
        LET r == Recorded
            base == r.Fixup.Constant
                    + (IF r.SymB.present
                       THEN (r.Fixup.FragmentOffset + r.Fixup.Offset) - r.SymB.Offset
                       ELSE 0)
                    + (IF r.A.isTemporary THEN r.A.Offset ELSE 0)
            four == \/ Header.Machine = "AMD64" /\ r.Type = "REL32"
                    \/ Header.Machine = "I386" /\ r.Type = "REL32"
                    \/ Header.Machine = "ARMNT"
                         /\ r.Type \in {"BRANCH20T", "BRANCH24T", "BLX23T"}
        IN  /\ r.Fixup.Kind = "FK_SecRel_2" => r.FixedValue = 0
            /\ (r.Fixup.Kind # "FK_SecRel_2" /\ four) => r.FixedValue = base + 4
            /\ (r.Fixup.Kind # "FK_SecRel_2" /\ ~four) => r.FixedValue = base
\* a Thumb branch to a temporary symbol at offset 16, minus a symbol at
\* offset 2, from offset 8 + 2, constant -4: -4 + (10 - 2) + 16 + 4 = 24
C24_Witness ==
    /\ pc = "relocated"
    /\ Recorded.error = "none"
    /\ Header.Machine = "ARMNT"
    /\ Recorded.Type = "BLX23T"
    /\ Recorded.Fixup.Kind = "FK_PCRel_4"
    /\ Recorded.A.isTemporary
    /\ Recorded.SymB.present
    /\ Recorded.FixedValue = 24

\* The cases in which recordRelocation reports an error.
ErrorCase(r) ==
    \/ ~r.A.isRegistered
    \/ r.A.isTemporary /\ r.A.isUndefined
    \/ r.SymB.present /\ ~r.SymB.hasFragment

\* C29: when recordRelocation reports an error (the target symbol is not
\* registered, it is temporary and undefined, or the subtracted symbol has
\* no fragment), it returns without appending a relocation to any section,
\* without changing the caller's fixed value and without changing any
\* symbol's relocation counter.
C29_ErrorFrame ==
    [][ (pc = "relocating" /\ pc' = "relocated" /\ ErrorCase(out'[1])) =>
            /\ out'[1].error # "none"
            /\ \A p \in 1..Len(Sections) :
                  Sections'[p].Relocations = Sections[p].Relocations
            /\ Len(Sections') = Len(Sections)
            /\ out'[1].FixedValue = out'[1].Fixup.FixedValue
            /\ Len(Symbols') = Len(Symbols)
            /\ \A i \in 1..Len(Symbols) :
                  Symbols'[i].Relocations = Symbols[i].Relocations ]_vars
\* a call with a registered, defined target and a subtracted symbol without
\* fragment has returned with the error
C29_Witness ==
    /\ pc = "relocated"
    /\ Recorded.A.isRegistered
    /\ ~Recorded.A.isUndefined
    /\ Recorded.SymB.present
    /\ ~Recorded.SymB.hasFragment
    /\ Recorded.keep
    /\ Recorded.error = "can not be undefined in a subtraction expression"
    /\ Recorded.FixedValue = 77

(***************************************************************************)
(* File symbols                                                            *)
(***************************************************************************)
\* The symbols createFileSymbols made, in order.
FileSymbols == SelectSeq(Symbols, LAMBDA S : S.StorageClass = "file")

\* Byte i (from 1) of a file record: the position in the name of the byte
\* it holds, or 0 for a zero byte.
FileAuxByte(Aux, i) == IF i <= Aux.Len THEN Aux.Offset + i ELSE 0

\* C25: createFileSymbols adds, for each recorded file name of length L, one
\* symbol with storage class file and exactly ceil(L / entry size) auxiliary
\* records of the file variant, and the bytes of those records taken in
\* order are the bytes of the name followed only by zero bytes up to the
\* end of the last record.
C25_FileSymbols ==
    Numbered =>
        LET SymbolSize == IF UseBigObj THEN Symbol32Size ELSE Symbol16Size
        IN  /\ Len(FileSymbols) = Len(FileNames)
            /\ \A f \in 1..Len(FileNames) :
                  LET L == FileNames[f]
                      Aux == FileSymbols[f].Aux
                  IN  /\ Len(Aux) * SymbolSize >= L
                      /\ (Len(Aux) - 1) * SymbolSize < L
                      /\ \A k \in 1..Len(Aux) :
                            /\ Aux[k].AuxType = "ATFile"
                            /\ \A i \in 1..SymbolSize :
                                  FileAuxByte(Aux[k], i) =
                                     IF (k - 1) * SymbolSize + i <= L
                                     THEN (k - 1) * SymbolSize + i
                                     ELSE 0
\* the name of 19 bytes has its last byte and 17 zero bytes in the second
\* record
C25_Witness ==
    /\ Numbered
    /\ Len(FileSymbols) = 1
    /\ FileNames = << 19 >>
    /\ Len(FileSymbols[1].Aux) = 2
    /\ FileAuxByte(FileSymbols[1].Aux[2], 1) = 19
    /\ FileAuxByte(FileSymbols[1].Aux[2], 2) = 0

(***************************************************************************)
(* SpecBigObj: the choice of the header and the fields that depend on it.  *)
(* Sections holds one run that stands for n sections defined one after    *)
(* the other, none of them associative; Symbols holds the definition       *)
(* symbols of the first and of the last of them, and, or not, an absolute  *)
(* symbol.                                                                 *)
(***************************************************************************)
SectionCounts ==
    {1, 2, 255, 256, 32767, 32768, 65278, 65279, 65280, 65535, 65536, 65537}

DefinitionSymbol(p) ==
    [ NewSymbol(".text") EXCEPT
        !.Section = p, !.StorageClass = "static",
        !.Aux = << SectionDefinitionAux(0) >> ]

AbsoluteSymbol ==
    [ NewSymbol("x") EXCEPT
        !.SectionNumber = IMAGE_SYM_ABSOLUTE, !.StorageClass = "external", !.MC = "x" ]

InitBigObj ==
    /\ signals = NoSignals
    /\ pc = "staged"
    /\ \E N \in SectionCounts, abs \in BOOLEAN :
          /\ Sections = << [ Name |-> ".text", n |-> N ] >>
          /\ Symbols = << DefinitionSymbol(1), DefinitionSymbol(N) >>
                          \o (IF abs THEN << AbsoluteSymbol >> ELSE <<>>)
          /\ SymbolMap = [m \in MCSyms |-> IF m = "x" /\ abs THEN 3 ELSE Null]
    /\ \E names \in {<<>>, << 19 >>} : FileNames = names
    /\ Header = [ NumberOfSections |-> 0, NumberOfSymbols |-> 0,
                  PointerToSymbolTable |-> U64(0, 0) ]
    /\ UseBigObj = FALSE
    /\ Strings = <<>>
    /\ out = <<>>
    /\ tell = U64(0, 0)
    /\ I = 1
    /\ codec = NoCodec
    /\ streamer = NoStreamer
    /\ reader = NoReader

\* writeObject from the start through the loop that gives the symbols their
\* section numbers and indices; assignSectionNumbers numbers the sections of
\* the run 1, 2, ..
writeObject_numbers ==
    /\ pc = "staged"
    /\ LET Size == Sections[1].n
           big == UseBigObjFor(Size)
           numbered == [p \in 1..Size |-> [ Number |-> p ]]
           f == createFileSymbols(Symbols, FileNames, big)
           x == AssignIndices(f, numbered, 1, 0)
       IN  /\ UseBigObj' = big
           /\ Header' = [Header EXCEPT !.NumberOfSections = Size,
                                       !.NumberOfSymbols = x.n]
           /\ Symbols' = x.syms
    /\ pc' = "numbered"
    /\ UNCHANGED <<Sections, SymbolMap, FileNames, Strings, out, tell, I>>
    /\ UNCHANGED <<codec, streamer, reader, signals>>

\* WriteFileHeader and the symbol table.
writeObject_records ==
    /\ pc = "numbered"
    /\ out' = << WriteFileHeader(Header, UseBigObj) >> \o SymbolRecords(1, UseBigObj)
    /\ pc' = "records"
    /\ UNCHANGED <<Sections, Symbols, SymbolMap, Header, UseBigObj, FileNames, Strings, tell, I>>
    /\ UNCHANGED <<codec, streamer, reader, signals>>

NextBigObj ==
    \/ writeObject_numbers
    \/ writeObject_records

SpecBigObj == InitBigObj /\ [][NextBigObj]_vars

\* The bits of the 32-bit signed v in a field of the width, nothing cut off.
Fits(field, width, v) ==
    /\ field.width = width
    /\ field.bits = IF v >= 0 THEN U64Of(v)
                    ELSE IF width = 16 THEN U64Of(65536 + v)
                    ELSE U64(255, Limb + v)
    /\ width = 16 => v < 65536 /\ v >= -32768

\* What C26 says of the fields once the header is chosen.
HeaderFields ==
    LET symbols == SelectSeq(out, LAMBDA r : r.kind = "symbol")
    IN  /\ UseBigObj = out[1].big
        /\ Len(symbols) = Len(Symbols)
        /\ UseBigObj =>
              /\ out[1].bytes = U64Of(Header32Size)
              /\ Fits(out[1].NumberOfSectionsField, 32, Sections[1].n)
              /\ \A k \in 1..Len(symbols) :
                    /\ Fits(symbols[k].SectionNumberField, 32,
                            Symbols[symbols[k].symbol].SectionNumber)
                    /\ symbols[k].bytes = U64Of(Symbol32Size * symbols[k].records)
        /\ ~UseBigObj =>
              /\ out[1].bytes = U64Of(Header16Size)
              /\ Fits(out[1].NumberOfSectionsField, 16, Sections[1].n)
              /\ \A k \in 1..Len(symbols) :
                    /\ Fits(symbols[k].SectionNumberField, 16,
                            Symbols[symbols[k].symbol].SectionNumber)
                    /\ symbols[k].bytes = U64Of(Symbol16Size * symbols[k].records)

C27_DefinitionSymbols ==
    /\ \A p \in 1..Len(Sections) :
          /\ Sections[p].Symbol \in 1..Len(Symbols)
          /\ Symbols[Sections[p].Symbol].Section = p
          /\ Len(Symbols[Sections[p].Symbol].Aux) = 1
          /\ Symbols[Sections[p].Symbol].Aux[1].AuxType = "ATSectionDefinition"
    /\ \A p, q \in 1..Len(Sections) :
          Sections[p].Symbol = Sections[q].Symbol => p = q
\* writeObject has finished for two sections, the second a COMDAT section
\* whose COMDAT symbol was then defined as a weak external
C27_Witness ==
    /\ pc = "done"
    /\ Len(Sections) = 2
    /\ Sections[2].COMDAT # NoSym
    /\ SymbolMap[Sections[2].COMDAT] # Null
    /\ Symbols[SymbolMap[Sections[2].COMDAT]].StorageClass = "weak_external"
    /\ Symbols[SymbolMap[Sections[2].COMDAT]].Section = 2

(***************************************************************************)
(* The bytes the constructor reads                                         *)
(***************************************************************************)
\* The ranges of the buffer the constructor reads up to the optional
\* header, each under the condition under which the code reaches the read:
\* the MS-DOS header, the PE signature at AddressOfNewExeHeader, the file
\* header or big-object header, and the optional header.
ConstructorReads(Buf) ==
    LET stub == Buf.Size >= sizeof_vpe_dos_header + sizeof_PEMagic
        CurPtr1 == IF stub /\ Buf.MZ THEN Buf.AddressOfNewExeHeader + sizeof_PEMagic ELSE 0
        header == Buf.Size >= Header16Size /\ ~OutOfBuffer(Buf, CurPtr1, Header16Size)
        bigobj == header /\ ~(stub /\ Buf.MZ) /\ Buf.Big /\ Buf.Size >= Header32Size
        CurPtr2 == CurPtr1 + (IF bigobj THEN Header32Size ELSE Header16Size)
    IN  (IF Buf.Size >= Header16Size /\ stub
         THEN { [ Addr |-> 0, Size |-> sizeof_vpe_dos_header ] } ELSE {})
        \cup
        (IF Buf.Size >= Header16Size /\ stub /\ Buf.MZ
         THEN { [ Addr |-> Buf.AddressOfNewExeHeader, Size |-> sizeof_PEMagic ] } ELSE {})
        \cup
        (IF header THEN { [ Addr |-> CurPtr1, Size |-> Header16Size ] } ELSE {})
        \cup
        (IF bigobj /\ ~OutOfBuffer(Buf, CurPtr1, Header32Size)
         THEN { [ Addr |-> CurPtr1, Size |-> Header32Size ] } ELSE {})
        \cup
        (IF header /\ stub /\ Buf.MZ /\ ~OutOfBuffer(Buf, CurPtr2, sizeof_vpe_pe32_header)
         THEN { [ Addr |-> CurPtr2, Size |-> sizeof_vpe_pe32_header ] } ELSE {})

\* C28: for every input buffer, every byte the reader's constructor reads
\* lies inside the buffer, including the 4-byte PE signature compared at
\* the offset taken from the MS-DOS header's new-executable-header field.
C28_ReadsInside ==
    reader.step \in {"created", "read"} =>
        \A r \in ConstructorReads(reader.Buf) : r.Addr + r.Size <= reader.Buf.Size

(***************************************************************************)
(* SpecSignals: FilesToRemove with one thread in DontRemoveFileOnSignal    *)
(* ("f") and one thread that runs removal passes.  The nodes of the list   *)
(* are 1, 2, .. in list order, 0 is the null pointer, and the string node  *)
(* n got from strdup is the pointer n; a step is one atomic operation or   *)
(* one call.                                                               *)
(***************************************************************************)
MaxPasses == 2

\* The names the earlier RemoveFileOnSignal calls inserted, in list order.
FileLists == { << "f" >>, << "g" >>, << "f", "g" >>, << "g", "f" >>, << "f", "f" >> }

\* Current->Next.load()
NextOf(n) == IF n < Len(signals.Names) THEN n + 1 ELSE 0

InitSignals ==
    /\ WriterIdle
    /\ pc = "signals"
    /\ codec = NoCodec
    /\ streamer = NoStreamer
    /\ reader = NoReader
    /\ \E Names \in FileLists :
          signals = [ step |-> "list", Names |-> Names, Head |-> 1,
                      Filename |-> [n \in 1..Len(Names) |-> n],
                      freed |-> {},
                      E |-> [ pc |-> "idle", Current |-> 0, OldFilename |-> 0 ],
                      R |-> [ pc |-> "idle", OldHead |-> 0, currentFile |-> 0,
                              path |-> 0, passes |-> 0, afterReturn |-> FALSE ],
                      unlinkedAfterReturn |-> FALSE,
                      readFreed |-> FALSE ]

\* DontRemoveFileOnSignal("f"): erase takes the lock and loads Head.
erase_begin ==
    /\ signals.step = "list"
    /\ signals.E.pc = "idle"
    /\ signals' = [signals EXCEPT !.E = [ pc |-> "loop", Current |-> signals.Head,
                                          OldFilename |-> 0 ]]
    /\ UNCHANGED <<writerVars, codec, streamer, reader>>

\* The loop test and Current->Filename.load(); erase returns at the end of
\* the list.
erase_load ==
    /\ signals.step = "list"
    /\ signals.E.pc = "loop"
    /\ LET Current == signals.E.Current
       IN  signals' =
              IF Current = 0
              THEN [signals EXCEPT !.E.pc = "returned"]
              ELSE IF signals.Filename[Current] = 0
              THEN [signals EXCEPT !.E.Current = NextOf(Current)]
              ELSE [signals EXCEPT !.E.pc = "compare",
                                   !.E.OldFilename = signals.Filename[Current]]
    /\ UNCHANGED <<writerVars, codec, streamer, reader>>

\* OldFilename != Filename
erase_compare ==
    /\ signals.step = "list"
    /\ signals.E.pc = "compare"
    /\ signals' =
          IF signals.Names[signals.E.OldFilename] # "f"
          THEN [signals EXCEPT !.E.pc = "loop", !.E.Current = NextOf(signals.E.Current)]
          ELSE [signals EXCEPT !.E.pc = "exchange"]
    /\ UNCHANGED <<writerVars, codec, streamer, reader>>

\* Current->Filename.exchange(nullptr) and free of what it returned.
erase_exchange ==
    /\ signals.step = "list"
    /\ signals.E.pc = "exchange"
    /\ LET Current == signals.E.Current
           OldFilename == signals.Filename[Current]
       IN  signals' = [signals EXCEPT
                          !.Filename[Current] = 0,
                          !.freed = IF OldFilename # 0 THEN @ \cup {OldFilename} ELSE @,
                          !.E.pc = "loop",
                          !.E.Current = NextOf(Current)]
    /\ UNCHANGED <<writerVars, codec, streamer, reader>>

\* removeAllFiles: Head.exchange(nullptr)
remove_begin ==
    /\ signals.step = "list"
    /\ signals.R.pc = "idle"
    /\ signals.R.passes < MaxPasses
    /\ signals' = [signals EXCEPT
                      !.Head = 0,
                      !.R.pc = "walk",
                      !.R.OldHead = signals.Head,
                      !.R.currentFile = signals.Head,
                      !.R.afterReturn = (signals.E.pc = "returned")]
    /\ UNCHANGED <<writerVars, codec, streamer, reader>>

\* The loop test and currentFile->Filename.exchange(nullptr)
remove_take ==
    /\ signals.step = "list"
    /\ signals.R.pc = "walk"
    /\ signals.R.currentFile # 0
    /\ LET currentFile == signals.R.currentFile
           path == signals.Filename[currentFile]
       IN  signals' =
              IF path = 0
              THEN [signals EXCEPT !.R.currentFile = NextOf(currentFile)]
              ELSE [signals EXCEPT !.Filename[currentFile] = 0,
                                   !.R.path = path,
                                   !.R.pc = "stat"]
    /\ UNCHANGED <<writerVars, codec, streamer, reader>>

\* GetFileInformationFromPath(path) and the test for a regular file: the
\* loop continues without putting the path back when the file is none.
remove_stat(regular) ==
    /\ signals.step = "list"
    /\ signals.R.pc = "stat"
    /\ signals' =
          IF regular
          THEN [signals EXCEPT
                   !.R.pc = "unlink",
                   !.readFreed = @ \/ signals.R.path \in signals.freed]
          ELSE [signals EXCEPT
                   !.R.pc = "walk",
                   !.R.currentFile = NextOf(signals.R.currentFile),
                   !.readFreed = @ \/ signals.R.path \in signals.freed]
    /\ UNCHANGED <<writerVars, codec, streamer, reader>>

\* unlink(path)
remove_unlink ==
    /\ signals.step = "list"
    /\ signals.R.pc = "unlink"
    /\ signals' = [signals EXCEPT
                      !.R.pc = "putback",
                      !.readFreed = @ \/ signals.R.path \in signals.freed,
                      !.unlinkedAfterReturn =
                          @ \/ (signals.R.afterReturn
                                  /\ signals.Names[signals.R.path] = "f")]
    /\ UNCHANGED <<writerVars, codec, streamer, reader>>

\* currentFile->Filename.exchange(path)
remove_putback ==
    /\ signals.step = "list"
    /\ signals.R.pc = "putback"
    /\ signals' = [signals EXCEPT
                      !.Filename[signals.R.currentFile] = signals.R.path,
                      !.R.pc = "walk",
                      !.R.currentFile = NextOf(signals.R.currentFile)]
    /\ UNCHANGED <<writerVars, codec, streamer, reader>>

\* Head.exchange(OldHead) at the end of the list
remove_end ==
    /\ signals.step = "list"
    /\ signals.R.pc = "walk"
    /\ signals.R.currentFile = 0
    /\ signals' = [signals EXCEPT
                      !.Head = signals.R.OldHead,
                      !.R.pc = "idle",
                      !.R.passes = @ + 1]
    /\ UNCHANGED <<writerVars, codec, streamer, reader>>

NextSignals ==
    \/ erase_begin
    \/ erase_load
    \/ erase_compare
    \/ erase_exchange
    \/ remove_begin
    \/ remove_take
    \/ \E regular \in BOOLEAN : remove_stat(regular)
    \/ remove_unlink
    \/ remove_putback
    \/ remove_end

SpecSignals == InitSignals /\ [][NextSignals]_vars

\* C30: for every interleaving of DontRemoveFileOnSignal(f) on one thread
\* with the file-removal pass on another, once DontRemoveFileOnSignal(f) has
\* returned, no later removal pass unlinks f; and a removal pass never reads
\* a filename that has already been freed.
C30_ErasedNotUnlinked ==
    signals.step = "list" =>
        /\ ~signals.unlinkedAfterReturn
        /\ ~signals.readFreed

====
